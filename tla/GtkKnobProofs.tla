---------------------------- MODULE GtkKnobProofs ----------------------------
(***************************************************************************)
(* Proofs about GtkKnob, for any knobs, adjustments, sources and numbers:  *)
(* types, timers and the grab, no announcement lost, and that it           *)
(* implements AnnouncedValue.                                              *)
(***************************************************************************)
EXTENDS GtkKnob, TLAPS

----------------------------------------------------------------------------
(* Narrowing to gfloat, and clamping.                                      *)

\* The distance of two numbers is zero only if they are equal.
LEMMA DistanceZero ==
    ASSUME NEW x \in Int, NEW y \in Int
    PROVE  /\ Distance(x, x) = 0
           /\ Distance(x, y) <= 0 => x = y
  BY DEF Distance

\* A conversion to gfloat gives a gfloat.
LEMMA ToFloatType ==
    ASSUME NEW v \in Doubles
    PROVE  ToFloat(v) \in Floats
  <1>1. \E f \in Floats : IsNearest(f, v)
    BY FloatAssumption
  <1>2. QED
    BY <1>1 DEF ToFloat

\* The conversion of a gdouble that a gfloat can hold is exact.
LEMMA ToFloatExact ==
    ASSUME NEW f \in Floats
    PROVE  ToFloat(f) = f
  <1>1. f \in Int /\ Floats \subseteq Int /\ f \in Doubles
    BY FloatAssumption
  <1> DEFINE g == ToFloat(f)
  <1>2. \E h \in Floats : IsNearest(h, f)
    BY <1>1, FloatAssumption
  <1>3. g \in Floats /\ IsNearest(g, f)
    BY <1>2 DEF ToFloat
  <1>4. Distance(g, f) <= Distance(f, f)
    BY <1>3 DEF IsNearest
  <1>5. g = f
    <2>1. Distance(f, f) = 0
      BY <1>1, DistanceZero
    <2>2. Distance(g, f) <= 0
      BY <1>4, <2>1
    <2>3. g \in Int
      BY <1>1, <1>3
    <2>4. QED
      BY <1>1, <2>2, <2>3, DistanceZero
  <1>6. QED
    BY <1>5

\* A clamped value is the value or one of the bounds.
LEMMA ClampType ==
    ASSUME NEW v \in Doubles, NEW low \in Doubles, NEW high \in Doubles
    PROVE  Clamp(v, low, high) \in Doubles
  BY DEF Clamp

----------------------------------------------------------------------------
(* Types of what the handlers are made of.                                 *)

\* Setting a value and emitting keeps the types of what that changes.
LEMMA SetAndEmitType ==
    ASSUME TypeOK, NEW a \in Adjustments, NEW v \in Doubles, SetAndEmit(a, v)
    PROVE  /\ value' \in [Adjustments -> Doubles]
           /\ heard' \in [Adjustments -> Doubles]
           /\ forfeit' \in [Adjustments -> BOOLEAN]
           /\ oldValue' \in [Knobs -> Floats]
  <1>1. ToFloat(v) \in Floats
    BY ToFloatType
  <1>2. QED
    BY <1>1 DEF TypeOK, SetAndEmit, OldValuesAfter

\* So does emitting only on a change.
LEMMA SetIfDifferentType ==
    ASSUME TypeOK, NEW a \in Adjustments, NEW v \in Doubles, SetIfDifferent(a, v)
    PROVE  /\ value' \in [Adjustments -> Doubles]
           /\ heard' \in [Adjustments -> Doubles]
           /\ forfeit' \in [Adjustments -> BOOLEAN]
           /\ oldValue' \in [Knobs -> Floats]
  <1>1. CASE SetAndEmit(a, v)
    BY <1>1, SetAndEmitType
  <1>2. CASE UNCHANGED <<value, heard, forfeit, oldValue>>
    BY <1>2 DEF TypeOK
  <1>3. QED
    BY <1>1, <1>2 DEF SetIfDifferent

\* Where a gesture leads is a gfloat.
LEMMA TargetType ==
    ASSUME TypeOK, NEW a \in Adjustments, NEW f \in Floats
    PROVE  /\ Clamp(f, Lower, upper[a]) \in Doubles
           /\ ToFloat(Clamp(f, Lower, upper[a])) \in Floats
           /\ ToFloat(Clamp(f, Lower, upper[a])) \in Doubles
  <1>1. f \in Doubles /\ Lower \in Doubles /\ upper[a] \in Doubles
    BY FloatAssumption, KnobAssumption DEF TypeOK
  <1>2. Clamp(f, Lower, upper[a]) \in Doubles
    BY <1>1, ClampType
  <1>3. ToFloat(Clamp(f, Lower, upper[a])) \in Floats
    BY <1>2, ToFloatType
  <1>4. QED
    BY <1>2, <1>3, FloatAssumption

\* A knob connects to an adjustment that has a value.
LEMMA ConnectType ==
    ASSUME TypeOK, NEW k \in Knobs, NEW a \in Adjustments,
           Given(a) \/ Fresh(a), Connect(k, a)
    PROVE  /\ value' \in [Adjustments -> Doubles]
           /\ heard' \in [Adjustments -> Doubles]
           /\ upper' \in [Adjustments -> Uppers \union {Lower}]
           /\ adjustment' \in [Knobs -> Adjustments \union {None}]
           /\ oldValue' \in [Knobs -> Floats]
  <1>1. /\ value' \in [Adjustments -> Doubles]
        /\ heard' \in [Adjustments -> Doubles]
        /\ upper' \in [Adjustments -> Uppers \union {Lower}]
    BY KnobAssumption DEF TypeOK, Given, Fresh
  <1>2. ToFloat(value'[a]) \in Floats
    BY <1>1, ToFloatType
  <1>3. QED
    BY <1>1, <1>2 DEF TypeOK, Connect

\* Forfeiting marks adjustments.
LEMMA ForfeitedType ==
    ASSUME TypeOK, NEW S
    PROVE  Forfeited(S) \in [Adjustments -> BOOLEAN]
  BY DEF TypeOK, Forfeited

\* Starting the timer keeps the types of timers and sources.
LEMMA RestartTimerType ==
    ASSUME TypeOK, NEW k \in Knobs, RestartTimer(k)
    PROVE  /\ timer' \in [Knobs -> SourceIds \union {None}]
           /\ source' \in [SourceIds -> Knobs \union {None}]
  BY DEF TypeOK, RestartTimer

\* A knob that leaves takes its timer and its grab along.
LEMMA DismantleType ==
    ASSUME TypeOK, NEW k \in Knobs, Dismantle(k)
    PROVE  /\ value' = value /\ upper' = upper /\ heard' = heard
           /\ forfeit' \in [Adjustments -> BOOLEAN]
           /\ adjustment' \in [Knobs -> Adjustments \union {None}]
           /\ timer' \in [Knobs -> SourceIds \union {None}]
           /\ grab' \in Knobs \union {None}
           /\ source' \in [SourceIds -> Knobs \union {None}]
  <1>1. forfeit' \in [Adjustments -> BOOLEAN]
    BY ForfeitedType DEF Dismantle
  <1>2. QED
    BY <1>1 DEF TypeOK, Dismantle

----------------------------------------------------------------------------
(* The inductive invariant: the types; every source's knob, and every knob *)
(* that is alive, has an adjustment; the grab follows the gesture; and the *)
(* old_value of a connected knob is what the listeners last heard.         *)

AliveIsConnected == \A k \in Knobs : life[k] = "ALIVE" => adjustment[k] # None

OldValueIsHeard ==
    \A k \in Knobs, a \in Adjustments :
        adjustment[k] = a /\ ~forfeit[a] => oldValue[k] = ToFloat(heard[a])

Safe == TypeOK /\ AliveIsConnected /\ SourceHasOwner /\ GrabMatchesGesture

\* Every constant of KnobAssumption that is not None is none of the rest.
LEMMA NoneIsNothing == None \notin Knobs /\ None \notin Adjustments /\ None \notin SourceIds
  BY KnobAssumption

\* The program starts in a safe state.
LEMMA InitSafe == Init => Safe
  <1> SUFFICES ASSUME Init PROVE Safe
    OBVIOUS
  <1>1. ToFloat(Lower) \in Floats /\ Lower \in Doubles
    BY KnobAssumption, ToFloatType
  <1>2. TypeOK
    BY <1>1 DEF Init, TypeOK, Policies, States
  <1>3. AliveIsConnected /\ SourceHasOwner
    BY DEF Init, AliveIsConnected, SourceHasOwner
  <1>4. GrabMatchesGesture
    BY NoneIsNothing DEF Init, GrabMatchesGesture
  <1>5. QED
    BY <1>2, <1>3, <1>4 DEF Safe

----------------------------------------------------------------------------
(* Every action keeps the program safe.                                    *)

\* A pointer event reaches a knob that has an adjustment; one that is not idle
\* holds the grab.
LEMMA ReceiverFacts ==
    ASSUME Safe, NEW k \in Knobs, Receives(k)
    PROVE  /\ life[k] = "ALIVE"
           /\ adjustment[k] \in Adjustments
           /\ state[k] # "IDLE" => grab = k
           /\ state[k] = "IDLE" => grab = None
  <1>1. life[k] = "ALIVE" /\ (grab = None \/ grab = k)
    BY DEF Receives
  <1>2. adjustment[k] # None /\ adjustment[k] \in Adjustments \union {None}
    BY <1>1 DEF Safe, AliveIsConnected, TypeOK
  <1>3. grab = k <=> state[k] # "IDLE"
    BY <1>1 DEF Safe, GrabMatchesGesture
  <1>4. QED
    BY <1>1, <1>2, <1>3

LEMMA NewSafe ==
    ASSUME Safe, NEW k \in Knobs, NEW a \in Adjustments, New(k, a)
    PROVE  Safe'
  <1> USE DEF Safe
  <1>1. forfeit' \in [Adjustments -> BOOLEAN]
    BY ForfeitedType DEF New, TypeOK
  <1>2. (Given(a) \/ Fresh(a)) /\ Connect(k, a)
    BY DEF New
  <1>3. TypeOK'
    BY <1>1, <1>2, ConnectType DEF New, TypeOK, Policies, States
  <1>4. AliveIsConnected'
    BY <1>2, NoneIsNothing DEF New, Connect, AliveIsConnected, TypeOK
  <1>5. SourceHasOwner'
    BY <1>2, NoneIsNothing DEF New, Connect, SourceHasOwner, TypeOK
  <1>6. GrabMatchesGesture'
    BY DEF New, GrabMatchesGesture, TypeOK
  <1>7. QED
    BY <1>3, <1>4, <1>5, <1>6

LEMMA SetAdjustmentSafe ==
    ASSUME Safe, NEW k \in Knobs, NEW a \in Adjustments, SetAdjustment(k, a)
    PROVE  Safe'
  <1> USE DEF Safe
  <1>1. forfeit' \in [Adjustments -> BOOLEAN]
    BY ForfeitedType DEF SetAdjustment
  <1>2. (Given(a) \/ Fresh(a)) /\ Connect(k, a)
    BY DEF SetAdjustment
  <1>3. TypeOK'
    BY <1>1, <1>2, ConnectType DEF SetAdjustment, TypeOK
  <1>4. AliveIsConnected'
    BY <1>2, NoneIsNothing DEF SetAdjustment, Connect, AliveIsConnected, TypeOK
  <1>5. SourceHasOwner'
    BY <1>2, NoneIsNothing DEF SetAdjustment, Connect, SourceHasOwner, TypeOK
  <1>6. GrabMatchesGesture'
    BY DEF SetAdjustment, GrabMatchesGesture
  <1>7. QED
    BY <1>3, <1>4, <1>5, <1>6

LEMMA SetUpdatePolicySafe ==
    ASSUME Safe, NEW k \in Knobs, NEW p \in Policies, SetUpdatePolicy(k, p)
    PROVE  Safe'
  <1> USE DEF Safe
  <1>1. forfeit' \in [Adjustments -> BOOLEAN]
    BY ForfeitedType DEF SetUpdatePolicy, TypeOK
  <1>2. TypeOK'
    BY <1>1 DEF SetUpdatePolicy, TypeOK
  <1>3. AliveIsConnected' /\ SourceHasOwner' /\ GrabMatchesGesture'
    BY DEF SetUpdatePolicy, AliveIsConnected, SourceHasOwner, GrabMatchesGesture
  <1>4. QED
    BY <1>2, <1>3

\* Only the knob that leaves loses its adjustment, its source and the grab.
LEMMA DismantleSafe ==
    ASSUME Safe, NEW k \in Knobs, Dismantle(k), life'[k] # "ALIVE",
           \A j \in Knobs \ {k} : life'[j] = life[j] /\ state'[j] = state[j]
    PROVE  AliveIsConnected' /\ SourceHasOwner' /\ GrabMatchesGesture'
  <1> USE DEF Safe
  <1>1. AliveIsConnected'
    BY DEF Dismantle, AliveIsConnected, TypeOK
  <1>2. SourceHasOwner'
    <2> SUFFICES ASSUME NEW id \in SourceIds, source'[id] # None
                 PROVE  /\ life'[source'[id]] = "ALIVE"
                        /\ timer'[source'[id]] = id
                        /\ adjustment'[source'[id]] # None
      BY DEF SourceHasOwner
    <2>1. source'[id] = source[id] /\ timer[k] # id
      BY DEF Dismantle
    <2>2. source[id] \in Knobs /\ source[id] # k
      BY <2>1 DEF SourceHasOwner, TypeOK
    <2>3. QED
      BY <2>1, <2>2 DEF Dismantle, SourceHasOwner, TypeOK
  <1>3. GrabMatchesGesture'
    BY NoneIsNothing DEF Dismantle, GrabMatchesGesture, TypeOK
  <1>4. QED
    BY <1>1, <1>2, <1>3

LEMMA DestroySafe ==
    ASSUME Safe, NEW k \in Knobs, Destroy(k)
    PROVE  Safe'
  <1>1. TypeOK'
    BY DismantleType DEF Safe, Destroy, TypeOK
  <1>2. /\ Dismantle(k) /\ life'[k] # "ALIVE"
        /\ \A j \in Knobs \ {k} : life'[j] = life[j] /\ state'[j] = state[j]
    BY DEF Safe, Destroy, TypeOK
  <1>3. QED
    BY <1>1, <1>2, DismantleSafe DEF Safe

LEMMA FinalizeSafe ==
    ASSUME Safe, NEW k \in Knobs, Finalize(k)
    PROVE  Safe'
  <1>1. ToFloat(Lower) \in Floats
    BY KnobAssumption, ToFloatType
  <1>2. TypeOK'
    BY <1>1, DismantleType DEF Safe, Finalize, TypeOK, Policies, States
  <1>3. /\ Dismantle(k) /\ life'[k] # "ALIVE"
        /\ \A j \in Knobs \ {k} : life'[j] = life[j] /\ state'[j] = state[j]
    BY DEF Safe, Finalize, TypeOK
  <1>4. QED
    BY <1>2, <1>3, DismantleSafe DEF Safe

LEMMA PressSafe ==
    ASSUME Safe, NEW k \in Knobs, NEW b \in Buttons, Press(k, b)
    PROVE  Safe'
  <1>1. life[k] = "ALIVE" /\ grab = None
    BY ReceiverFacts DEF Press
  <1>2. TypeOK'
    BY DEF Safe, Press, TypeOK, States, adjVars
  <1>3. AliveIsConnected' /\ SourceHasOwner'
    BY DEF Safe, Press, AliveIsConnected, SourceHasOwner, adjVars
  <1>4. GrabMatchesGesture'
    BY <1>1, NoneIsNothing DEF Safe, Press, GrabMatchesGesture, TypeOK
  <1>5. QED
    BY <1>2, <1>3, <1>4 DEF Safe

LEMMA ReleaseSafe ==
    ASSUME Safe, NEW k \in Knobs, NEW b \in Buttons, Release(k, b)
    PROVE  Safe'
  <1> DEFINE a == adjustment[k]
  <1>1. a \in Adjustments /\ state[k] # "IDLE" /\ grab = k
    BY ReceiverFacts DEF Release, Click, Drop
  <1>2. /\ value' \in [Adjustments -> Doubles]
        /\ heard' \in [Adjustments -> Doubles]
        /\ forfeit' \in [Adjustments -> BOOLEAN]
        /\ oldValue' \in [Knobs -> Floats]
    <2>1. CASE UNCHANGED <<value, heard, forfeit, oldValue>>
      BY <2>1 DEF Safe, TypeOK
    <2>2. CASE SetAndEmit(a, value[a])
      <3>1. value[a] \in Doubles
        BY <1>1 DEF Safe, TypeOK
      <3>2. QED
        BY <1>1, <2>2, <3>1, SetAndEmitType DEF Safe
    <2>3. ASSUME NEW f \in Floats, SetIfDifferent(a, PageTarget(a, f))
          PROVE  /\ value' \in [Adjustments -> Doubles]
                 /\ heard' \in [Adjustments -> Doubles]
                 /\ forfeit' \in [Adjustments -> BOOLEAN]
                 /\ oldValue' \in [Knobs -> Floats]
      <3>1. PageTarget(a, f) \in Doubles
        BY <1>1, TargetType DEF Safe, PageTarget
      <3>2. QED
        BY <1>1, <2>3, <3>1, SetIfDifferentType DEF Safe
    <2>4. QED
      BY <2>1, <2>2, <2>3 DEF Release, Click, Drop
  <1>3. TypeOK'
    BY <1>2 DEF Safe, Release, TypeOK, States
  <1>4. AliveIsConnected' /\ SourceHasOwner'
    BY DEF Safe, Release, AliveIsConnected, SourceHasOwner
  <1>5. GrabMatchesGesture'
    BY <1>1, NoneIsNothing DEF Safe, Release, GrabMatchesGesture, TypeOK
  <1>6. QED
    BY <1>3, <1>4, <1>5 DEF Safe


\* A movement of a dragged knob keeps the types.
LEMMA UpdateMouseType ==
    ASSUME Safe, NEW k \in Knobs, adjustment[k] \in Adjustments, NEW f \in Floats,
           UpdateMouse(k, f)
    PROVE  /\ value' \in [Adjustments -> Doubles]
           /\ heard' \in [Adjustments -> Doubles]
           /\ forfeit' \in [Adjustments -> BOOLEAN]
           /\ oldValue' \in [Knobs -> Floats]
           /\ timer' \in [Knobs -> SourceIds \union {None}]
           /\ source' \in [SourceIds -> Knobs \union {None}]
  <1> DEFINE a   == adjustment[k]
             new == ToFloat(Clamp(f, Lower, upper[a]))
  <1> USE DEF Safe
  <1>1. new \in Doubles
    BY TargetType
  <1>2. CASE SetAndEmit(a, new) /\ UNCHANGED <<timer, source>>
    BY <1>1, <1>2, SetAndEmitType DEF TypeOK
  <1>3. CASE /\ value' = [value EXCEPT ![a] = new]
             /\ forfeit' = [forfeit EXCEPT ![a] =
                              @ \/ (new # heard[a] /\ new = ToFloat(heard[a]))]
             /\ UNCHANGED <<heard, oldValue>>
             /\ RestartTimer(k) \/ UNCHANGED <<timer, source>>
    <2>1. /\ timer' \in [Knobs -> SourceIds \union {None}]
          /\ source' \in [SourceIds -> Knobs \union {None}]
      BY <1>3, RestartTimerType DEF TypeOK
    <2>2. /\ value' \in [Adjustments -> Doubles]
          /\ heard' \in [Adjustments -> Doubles]
          /\ oldValue' \in [Knobs -> Floats]
      BY <1>1, <1>3 DEF TypeOK
    <2>3. forfeit' \in [Adjustments -> BOOLEAN]
      BY <1>3 DEF TypeOK
    <2>4. QED
      BY <2>1, <2>2, <2>3
  <1>4. QED
    BY <1>2, <1>3 DEF UpdateMouse

\* A timer that is restarted replaces the knob's only source.
LEMMA RestartTimerOwner ==
    ASSUME Safe, NEW k \in Knobs, life[k] = "ALIVE", adjustment[k] # None,
           RestartTimer(k), UNCHANGED <<life, adjustment>>
    PROVE  SourceHasOwner'
  <1> SUFFICES ASSUME NEW i \in SourceIds, source'[i] # None
               PROVE  /\ life[source'[i]] = "ALIVE"
                      /\ timer'[source'[i]] = i
                      /\ adjustment[source'[i]] # None
    BY DEF SourceHasOwner
  <1>1. PICK id \in SourceIds :
            /\ NewSourceId(id)
            /\ timer' = [timer EXCEPT ![k] = id]
            /\ source' = [j \in SourceIds |->
                            IF j = id THEN k ELSE IF j = timer[k] THEN None ELSE source[j]]
    BY DEF RestartTimer
  <1>2. CASE i = id
    BY <1>1, <1>2 DEF Safe, TypeOK
  <1>3. CASE i # id
    <2>1. source'[i] = source[i] /\ i # timer[k] /\ source[i] \in Knobs
      BY <1>1, <1>3 DEF Safe, TypeOK
    <2>2. /\ life[source[i]] = "ALIVE"
          /\ timer[source[i]] = i
          /\ adjustment[source[i]] # None
      BY <2>1 DEF Safe, SourceHasOwner
    <2>3. source[i] # k
      BY <2>1, <2>2
    <2>4. QED
      BY <1>1, <2>1, <2>2, <2>3 DEF Safe, TypeOK
  <1>4. QED
    BY <1>2, <1>3

LEMMA MotionSafe ==
    ASSUME Safe, NEW k \in Knobs, NEW mods \in SUBSET Buttons, Motion(k, mods)
    PROVE  Safe'
  <1>1. /\ life[k] = "ALIVE" /\ adjustment[k] \in Adjustments
        /\ state[k] # "IDLE" /\ grab = k
    BY ReceiverFacts DEF Motion
  <1>2. CASE UNCHANGED <<value, heard, forfeit, oldValue, timer, source>>
    <2>1. TypeOK'
      BY <1>2 DEF Safe, Motion, TypeOK, States
    <2>2. AliveIsConnected' /\ SourceHasOwner'
      BY <1>2 DEF Safe, Motion, AliveIsConnected, SourceHasOwner
    <2>3. GrabMatchesGesture'
      BY <1>1 DEF Safe, Motion, GrabMatchesGesture, TypeOK
    <2>4. QED
      BY <2>1, <2>2, <2>3 DEF Safe
  <1>3. ASSUME NEW f \in Floats, UpdateMouse(k, f)
        PROVE  Safe'
    <2>1. TypeOK'
      BY <1>1, <1>3, UpdateMouseType DEF Safe, Motion, TypeOK, States
    <2>2. AliveIsConnected'
      BY DEF Safe, Motion, AliveIsConnected
    <2>3. SourceHasOwner'
      <3>1. CASE RestartTimer(k)
        BY <1>1, <3>1, NoneIsNothing, RestartTimerOwner DEF Motion
      <3>2. CASE UNCHANGED <<timer, source>>
        BY <3>2 DEF Safe, Motion, SourceHasOwner
      <3>3. QED
        BY <1>3, <3>1, <3>2 DEF UpdateMouse
    <2>4. GrabMatchesGesture'
      BY <1>1 DEF Safe, Motion, GrabMatchesGesture, TypeOK
    <2>5. QED
      BY <2>1, <2>2, <2>3, <2>4 DEF Safe
  <1>4. QED
    BY <1>2, <1>3 DEF Motion

LEMMA TimerCallbackSafe ==
    ASSUME Safe, NEW id \in SourceIds, TimerCallback(id)
    PROVE  Safe'
  <1> DEFINE k == source[id]
             a == adjustment[k]
  <1>1. k \in Knobs /\ a \in Adjustments
    BY DEF Safe, TypeOK, SourceHasOwner, TimerCallback
  <1>2. value[a] \in Doubles
    BY <1>1 DEF Safe, TypeOK
  <1>3. /\ value' \in [Adjustments -> Doubles]
        /\ heard' \in [Adjustments -> Doubles]
        /\ forfeit' \in [Adjustments -> BOOLEAN]
        /\ oldValue' \in [Knobs -> Floats]
    <2>1. CASE UNCHANGED <<value, heard, forfeit, oldValue>>
      BY <2>1 DEF Safe, TypeOK
    <2>2. CASE SetAndEmit(a, value[a])
      BY <1>1, <1>2, <2>2, SetAndEmitType DEF Safe
    <2>3. QED
      BY <2>1, <2>2 DEF TimerCallback
  <1>4. TypeOK'
    BY <1>3 DEF Safe, TimerCallback, TypeOK
  <1>5. AliveIsConnected' /\ SourceHasOwner' /\ GrabMatchesGesture'
    BY DEF Safe, TimerCallback, TypeOK, AliveIsConnected, SourceHasOwner, GrabMatchesGesture
  <1>6. QED
    BY <1>4, <1>5 DEF Safe

LEMMA AppSetValueSafe ==
    ASSUME Safe, NEW a \in Adjustments, NEW v \in AppValues, AppSetValue(a, v)
    PROVE  Safe'
  <1>1. v \in Doubles /\ Lower \in Doubles /\ upper[a] \in Doubles
    BY KnobAssumption DEF Safe, TypeOK
  <1>2. Clamp(v, Lower, upper[a]) \in Doubles
    BY <1>1, ClampType
  <1>3. TypeOK'
    BY <1>2, SetIfDifferentType DEF Safe, AppSetValue, TypeOK
  <1>4. AliveIsConnected' /\ SourceHasOwner' /\ GrabMatchesGesture'
    BY DEF Safe, AppSetValue, AliveIsConnected, SourceHasOwner, GrabMatchesGesture
  <1>5. QED
    BY <1>3, <1>4 DEF Safe

LEMMA AppConfigureSafe ==
    ASSUME Safe, NEW a \in Adjustments, NEW u \in Uppers, AppConfigure(a, u)
    PROVE  Safe'
  <1>1. ToFloat(value[a]) \in Floats
    BY ToFloatType DEF Safe, TypeOK
  <1>2. forfeit' \in [Adjustments -> BOOLEAN]
    BY ForfeitedType DEF Safe, AppConfigure
  <1>3. TypeOK'
    BY <1>1, <1>2 DEF Safe, AppConfigure, TypeOK
  <1>4. AliveIsConnected' /\ SourceHasOwner' /\ GrabMatchesGesture'
    BY DEF Safe, AppConfigure, AliveIsConnected, SourceHasOwner, GrabMatchesGesture
  <1>5. QED
    BY <1>3, <1>4 DEF Safe

LEMMA NextSafe == Safe /\ [Next]_vars => Safe'
  <1> SUFFICES ASSUME Safe, [Next]_vars PROVE Safe'
    OBVIOUS
  <1>1. ASSUME NEW k \in Knobs, KnobStep(k) PROVE Safe'
    BY <1>1, NewSafe, SetAdjustmentSafe, SetUpdatePolicySafe, DestroySafe, FinalizeSafe,
       PressSafe, ReleaseSafe, MotionSafe DEF KnobStep
  <1>2. ASSUME NEW a \in Adjustments, AppStep(a) PROVE Safe'
    BY <1>2, AppSetValueSafe, AppConfigureSafe DEF AppStep
  <1>3. ASSUME NEW id \in SourceIds, TimerCallback(id) PROVE Safe'
    BY <1>3, TimerCallbackSafe
  <1>4. CASE UNCHANGED vars
    BY <1>4 DEF Safe, TypeOK, AliveIsConnected, SourceHasOwner, GrabMatchesGesture,
                vars, adjVars, knobVars
  <1>5. QED
    BY <1>1, <1>2, <1>3, <1>4 DEF Next

\* The inductive invariant.
LEMMA SafeAlways == Spec => []Safe
  BY InitSafe, NextSafe, PTL DEF Spec

----------------------------------------------------------------------------
(* The results.                                                            *)

\* Types: in particular old_value is always a gfloat and no handler computes
\* with an adjustment that is not one.
THEOREM TypeCorrect == Spec => []TypeOK
  BY SafeAlways, PTL DEF Safe

\* The update timer of any number of knobs, created, destroyed and re-armed in
\* any order, never runs on a knob that is gone, and is always cancellable.
THEOREM TimersHaveOwners == Spec => []SourceHasOwner
  BY SafeAlways, PTL DEF Safe

\* The GTK+ grab is held exactly during a gesture, however it ends.
THEOREM GrabFollowsGesture == Spec => []GrabMatchesGesture
  BY SafeAlways, PTL DEF Safe


----------------------------------------------------------------------------
(* No announcement is lost.  The invariant: the old_value of every knob on *)
(* an adjustment is what its listeners last heard, and what they have not  *)
(* heard the dragged knob owes them.                                       *)

Faithful == OldValueIsHeard /\ NoLostAnnouncement

\* Only the knob that holds the grab owes anything, on its own adjustment.
LEMMA DebtorHoldsGrab ==
    ASSUME Safe, NEW k \in Knobs, grab \in {k, None}, NEW j \in Knobs, NEW b, Owes(j, b)
    PROVE  j = k /\ grab = k /\ b = adjustment[k]
  BY NoneIsNothing DEF Owes

\* An emission makes the adjustment faithful and leaves the others as they were,
\* if what the grab and the policies are owed by does not change.
LEMMA EmitFaithful ==
    ASSUME Safe, Faithful, NEW a \in Adjustments, NEW v \in Doubles, SetAndEmit(a, v),
           adjustment' = adjustment, policy' = policy,
           \A k \in Knobs, b \in Adjustments \ {a} :
               Owes(k, b) => grab' = grab /\ state'[k] = state[k]
    PROVE  Faithful'
  <1>1. OldValueIsHeard'
    <2> SUFFICES ASSUME NEW k \in Knobs, NEW b \in Adjustments,
                        adjustment[k] = b, ~forfeit'[b]
                 PROVE  oldValue'[k] = ToFloat(heard'[b])
      BY DEF OldValueIsHeard
    <2>1. CASE b = a
      <3>1. oldValue'[k] = IF oldValue[k] # v THEN ToFloat(v) ELSE oldValue[k]
        BY <2>1 DEF SetAndEmit, OldValuesAfter
      <3>2. heard'[b] = v
        BY <2>1 DEF SetAndEmit, Safe, TypeOK
      <3>3. oldValue[k] \in Floats
        BY DEF Safe, TypeOK
      <3>4. ToFloat(oldValue[k]) = oldValue[k]
        BY <3>3, ToFloatExact
      <3>5. QED
        BY <3>1, <3>2, <3>4
    <2>2. CASE b # a
      <3>1. oldValue'[k] = oldValue[k] /\ heard'[b] = heard[b] /\ forfeit'[b] = forfeit[b]
        BY <2>2 DEF SetAndEmit, OldValuesAfter, Safe, TypeOK
      <3>2. QED
        BY <3>1 DEF Faithful, OldValueIsHeard
    <2>3. QED
      BY <2>1, <2>2
  <1>2. NoLostAnnouncement'
    <2> SUFFICES ASSUME NEW b \in Adjustments, Unannounced(b)', ~forfeit'[b]
                 PROVE  \E k \in Knobs : Owes(k, b)'
      BY DEF NoLostAnnouncement
    <2>1. b # a
      BY DEF SetAndEmit, Unannounced, Safe, TypeOK
    <2>2. value'[b] = value[b] /\ heard'[b] = heard[b] /\ forfeit'[b] = forfeit[b]
      BY <2>1 DEF SetAndEmit, Safe, TypeOK
    <2>3. PICK k \in Knobs : Owes(k, b)
      BY <2>2 DEF Unannounced, Faithful, NoLostAnnouncement
    <2>4. oldValue'[k] = oldValue[k]
      BY <2>1, <2>3 DEF Owes, SetAndEmit, OldValuesAfter
    <2>5. grab' = grab /\ state'[k] = state[k]
      BY <2>1, <2>3
    <2>6. Owes(k, b)'
      BY <2>2, <2>3, <2>4, <2>5 DEF Owes
    <2>7. QED
      BY <2>6
  <1>3. QED
    BY <1>1, <1>2 DEF Faithful

\* A step that changes no value, keeps or drops the connections and leaves every
\* debtor its debt or forfeits it, stays faithful.
LEMMA QuietFaithful ==
    ASSUME Safe, Faithful, UNCHANGED <<value, heard>>,
           \A k \in Knobs : \/ adjustment'[k] = None
                            \/ adjustment'[k] = adjustment[k] /\ oldValue'[k] = oldValue[k],
           \A a \in Adjustments : forfeit[a] => forfeit'[a],
           \A k \in Knobs, a \in Adjustments :
               Owes(k, a) /\ Unannounced(a) => Owes(k, a)' \/ forfeit'[a]
    PROVE  Faithful'
  <1>1. OldValueIsHeard'
    BY NoneIsNothing DEF Faithful, OldValueIsHeard
  <1>2. NoLostAnnouncement'
    BY DEF Faithful, NoLostAnnouncement, Unannounced
  <1>3. QED
    BY <1>1, <1>2 DEF Faithful

\* Forfeiting keeps what is forfeited and adds what S has unannounced.
LEMMA ForfeitedFacts ==
    ASSUME NEW S, NEW a \in Adjustments
    PROVE  Forfeited(S)[a] = (forfeit[a] \/ (a \in S /\ Unannounced(a)))
  BY DEF Forfeited

LEMMA InitFaithful == Init => Faithful
  BY NoneIsNothing DEF Init, Faithful, OldValueIsHeard, NoLostAnnouncement, Unannounced

\* What a connection needs: the new connection is forfeited or to a value that
\* was heard, and only the debts of the knob that moves may be forfeited.
LEMMA ConnectFaithful ==
    ASSUME Safe, Faithful, NEW k \in Knobs, NEW a \in Adjustments, Connect(k, a),
           \/ Given(a) /\ (Unannounced(a) \/ forfeit[a] => forfeit'[a])
           \/ Fresh(a),
           \A b \in Adjustments \ {a} : forfeit[b] => forfeit'[b],
           \A b \in Adjustments : Owes(k, b) /\ Unannounced(b) => forfeit'[b],
           grab' = grab,
           \A j \in Knobs \ {k} : state'[j] = state[j] /\ policy'[j] = policy[j]
    PROVE  Faithful'
  <1>1. /\ \A j \in Knobs \ {k} : adjustment'[j] = adjustment[j] /\ oldValue'[j] = oldValue[j]
        /\ adjustment'[k] = a /\ oldValue'[k] = ToFloat(value'[a])
        /\ \A b \in Adjustments \ {a} : value'[b] = value[b] /\ heard'[b] = heard[b]
    BY DEF Safe, TypeOK, Connect, Given, Fresh
  <1>2. CASE Given(a) /\ (Unannounced(a) \/ forfeit[a] => forfeit'[a])
    <2>1. OldValueIsHeard'
      BY <1>1, <1>2 DEF Faithful, OldValueIsHeard, Given, Unannounced
    <2>2. NoLostAnnouncement'
      BY <1>1, <1>2 DEF Faithful, NoLostAnnouncement, Unannounced, Given, Owes
    <2>3. QED
      BY <2>1, <2>2 DEF Faithful
  <1>3. CASE Fresh(a)
    <2>1. value'[a] = Lower /\ heard'[a] = Lower /\ \A j \in Knobs : adjustment[j] # a
      BY <1>3 DEF Fresh, Safe, TypeOK
    <2>2. OldValueIsHeard'
      BY <1>1, <2>1 DEF Faithful, OldValueIsHeard
    <2>3. NoLostAnnouncement'
      BY <1>1, <2>1 DEF Faithful, NoLostAnnouncement, Unannounced, Owes
    <2>4. QED
      BY <2>2, <2>3 DEF Faithful
  <1>4. QED
    BY <1>2, <1>3

LEMMA NewFaithful ==
    ASSUME Safe, Faithful, NEW k \in Knobs, NEW a \in Adjustments, New(k, a)
    PROVE  Faithful'
  <1>1. grab # k
    BY DEF New, Safe, GrabMatchesGesture
  <1>2. \A b \in Adjustments : ~ Owes(k, b)
    BY <1>1 DEF Owes
  <1>3. /\ Connect(k, a) /\ grab' = grab
        /\ \A j \in Knobs \ {k} : state'[j] = state[j] /\ policy'[j] = policy[j]
    BY DEF New, Safe, TypeOK
  <1>4. CASE Given(a) /\ forfeit' = Forfeited({a})
    BY <1>2, <1>3, <1>4, ForfeitedFacts, ConnectFaithful
  <1>5. CASE Fresh(a) /\ forfeit' = [forfeit EXCEPT ![a] = FALSE]
    <2>1. \A b \in Adjustments \ {a} : forfeit'[b] = forfeit[b]
      BY <1>5 DEF Safe, TypeOK
    <2>2. QED
      BY <1>2, <1>3, <1>5, <2>1, ConnectFaithful
  <1>6. QED
    BY <1>4, <1>5 DEF New

LEMMA SetAdjustmentFaithful ==
    ASSUME Safe, Faithful, NEW k \in Knobs, NEW a \in Adjustments, SetAdjustment(k, a)
    PROVE  Faithful'
  <1>1. \A b \in Adjustments : Owes(k, b) => b \in DraggedBy(k)
    BY DEF Owes, DraggedBy
  <1>2. /\ Connect(k, a) /\ grab' = grab
        /\ \A j \in Knobs \ {k} : state'[j] = state[j] /\ policy'[j] = policy[j]
    BY DEF SetAdjustment
  <1>3. CASE Given(a) /\ forfeit' = Forfeited(DraggedBy(k) \union {a})
    BY <1>1, <1>2, <1>3, ForfeitedFacts, ConnectFaithful
  <1>4. CASE Fresh(a) /\ forfeit' = [Forfeited(DraggedBy(k)) EXCEPT ![a] = FALSE]
    <2>1. \A b \in Adjustments \ {a} : forfeit'[b] = Forfeited(DraggedBy(k))[b]
      BY <1>4, ForfeitedType DEF Safe
    <2>2. \A b \in Adjustments \ {a} : forfeit[b] => forfeit'[b]
      BY <2>1, ForfeitedFacts
    <2>3. \A b \in Adjustments : Owes(k, b) /\ Unannounced(b) => forfeit'[b]
      <3>1. \A b \in Adjustments : Owes(k, b) => b # a
        BY <1>4 DEF Owes, Fresh
      <3>2. QED
        BY <1>1, <2>1, <3>1, ForfeitedFacts
    <2>4. QED
      BY <1>2, <1>4, <2>2, <2>3, ConnectFaithful
  <1>5. QED
    BY <1>3, <1>4 DEF SetAdjustment

LEMMA SetUpdatePolicyFaithful ==
    ASSUME Safe, Faithful, NEW k \in Knobs, NEW p \in Policies, SetUpdatePolicy(k, p)
    PROVE  Faithful'
  <1>1. \A a \in Adjustments : forfeit[a] => forfeit'[a]
    BY ForfeitedFacts DEF SetUpdatePolicy
  <1>2. ASSUME NEW j \in Knobs, NEW a \in Adjustments, Owes(j, a), Unannounced(a)
        PROVE  Owes(j, a)' \/ forfeit'[a]
    <2>1. CASE j = k /\ p = "CONTINUOUS"
      <3>1. a \in DraggedBy(k)
        BY <1>2, <2>1 DEF Owes, DraggedBy
      <3>2. QED
        BY <1>2, <2>1, <3>1, ForfeitedFacts DEF SetUpdatePolicy
    <2>2. CASE ~ (j = k /\ p = "CONTINUOUS")
      <3>1. policy'[j] # "CONTINUOUS"
        BY <1>2, <2>2 DEF SetUpdatePolicy, Owes, Safe, TypeOK
      <3>2. QED
        BY <1>2, <3>1 DEF SetUpdatePolicy, Owes
    <2>3. QED
      BY <2>1, <2>2
  <1>3. QED
    BY <1>1, <1>2, QuietFaithful DEF SetUpdatePolicy

LEMMA DismantleFaithful ==
    ASSUME Safe, Faithful, NEW k \in Knobs, Dismantle(k),
           \A j \in Knobs \ {k} : /\ state'[j] = state[j]
                                  /\ policy'[j] = policy[j]
                                  /\ oldValue'[j] = oldValue[j]
    PROVE  Faithful'
  <1>1. \A a \in Adjustments : forfeit[a] => forfeit'[a]
    BY ForfeitedFacts DEF Dismantle
  <1>2. /\ adjustment'[k] = None
        /\ \A j \in Knobs \ {k} : adjustment'[j] = adjustment[j]
    BY DEF Dismantle, Safe, TypeOK
  <1>3. ASSUME NEW j \in Knobs, NEW a \in Adjustments, Owes(j, a), Unannounced(a)
        PROVE  Owes(j, a)' \/ forfeit'[a]
    <2>1. CASE j = k
      <3>1. a \in DraggedBy(k)
        BY <1>3, <2>1 DEF Owes, DraggedBy
      <3>2. QED
        BY <1>3, <3>1, ForfeitedFacts DEF Dismantle
    <2>2. CASE j # k
      <3>1. grab' = grab
        BY <1>3, <2>2 DEF Dismantle, Owes
      <3>2. QED
        BY <1>2, <1>3, <2>2, <3>1 DEF Dismantle, Owes
    <2>3. QED
      BY <2>1, <2>2
  <1>4. \A j \in Knobs : \/ adjustment'[j] = None
                         \/ adjustment'[j] = adjustment[j] /\ oldValue'[j] = oldValue[j]
    BY <1>2
  <1>5. UNCHANGED <<value, heard>>
    BY DEF Dismantle
  <1>6. QED
    BY <1>1, <1>3, <1>4, <1>5, QuietFaithful

LEMMA DestroyFaithful ==
    ASSUME Safe, Faithful, NEW k \in Knobs, Destroy(k)
    PROVE  Faithful'
  BY DismantleFaithful DEF Destroy

LEMMA FinalizeFaithful ==
    ASSUME Safe, Faithful, NEW k \in Knobs, Finalize(k)
    PROVE  Faithful'
  <1>1. \A j \in Knobs \ {k} : /\ state'[j] = state[j]
                               /\ policy'[j] = policy[j]
                               /\ oldValue'[j] = oldValue[j]
    BY DEF Finalize, Safe, TypeOK
  <1>2. QED
    BY <1>1, DismantleFaithful DEF Finalize

LEMMA PressFaithful ==
    ASSUME Safe, Faithful, NEW k \in Knobs, NEW b \in Buttons, Press(k, b)
    PROVE  Faithful'
  <1>1. grab = None
    BY ReceiverFacts DEF Press
  <1>2. \A j \in Knobs, a \in Adjustments : ~ Owes(j, a)
    BY <1>1, NoneIsNothing DEF Owes
  <1>3. QED
    BY <1>2, QuietFaithful DEF Press, adjVars

\* The release of a click finds nothing owed; that of a drag pays.
LEMMA ReleaseFaithful ==
    ASSUME Safe, Faithful, NEW k \in Knobs, NEW b \in Buttons, Release(k, b)
    PROVE  Faithful'
  <1> DEFINE a == adjustment[k]
  <1>1. a \in Adjustments /\ grab = k
    BY ReceiverFacts DEF Release, Click, Drop
  <1>2. \A j \in Knobs, c \in Adjustments : Owes(j, c) => j = k /\ c = a
    BY <1>1, DebtorHoldsGrab
  <1>3. ASSUME NEW v \in Doubles, SetAndEmit(a, v) PROVE Faithful'
    BY <1>1, <1>2, <1>3, EmitFaithful DEF Release
  <1>4. CASE /\ UNCHANGED <<value, heard, forfeit, oldValue>>
             /\ \A j \in Knobs, c \in Adjustments : ~ Owes(j, c)
    BY <1>4, QuietFaithful DEF Release
  <1>5. CASE Click(k, b)
    <2>1. \A j \in Knobs, c \in Adjustments : ~ Owes(j, c)
      BY <1>2, <1>5 DEF Click, Owes
    <2>2. ASSUME NEW f \in Floats, SetIfDifferent(a, PageTarget(a, f)) PROVE Faithful'
      <3>1. PageTarget(a, f) \in Doubles
        BY <1>1, TargetType DEF PageTarget, Safe
      <3>2. QED
        BY <1>3, <1>4, <2>1, <2>2, <3>1 DEF SetIfDifferent
    <2>3. QED
      BY <1>4, <1>5, <2>1, <2>2 DEF Click
  <1>6. CASE Drop(k)
    <2>1. value[a] \in Doubles
      BY <1>1 DEF Safe, TypeOK
    <2>2. CASE SetAndEmit(a, value[a])
      BY <1>3, <2>1, <2>2
    <2>3. CASE /\ ~ (policy[k] # "CONTINUOUS" /\ oldValue[k] # value[a])
               /\ UNCHANGED <<value, heard, forfeit, oldValue>>
      BY <1>2, <1>4, <2>3 DEF Owes
    <2>4. QED
      BY <1>6, <2>2, <2>3 DEF Drop
  <1>7. QED
    BY <1>5, <1>6 DEF Release

\* A movement announces the value, or the knob owes it, or it is too small a
\* change for a gfloat.
LEMMA UpdateMouseFaithful ==
    ASSUME Safe, Faithful, NEW k \in Knobs, adjustment[k] \in Adjustments, grab = k,
           NEW f \in Floats, UpdateMouse(k, f), state'[k] = "DRAGGING",
           UNCHANGED <<adjustment, policy, grab>>
    PROVE  Faithful'
  <1> DEFINE a   == adjustment[k]
             new == ToFloat(Clamp(f, Lower, upper[a]))
  <1>1. \A j \in Knobs, b \in Adjustments : Owes(j, b) => j = k /\ b = a
    BY DebtorHoldsGrab
  <1>2. new \in Doubles
    BY TargetType DEF Safe
  <1>3. CASE SetAndEmit(a, new)
    BY <1>1, <1>2, <1>3, EmitFaithful
  <1>4. CASE /\ ~ (policy[k] = "CONTINUOUS" /\ new # ToFloat(value[a]))
             /\ value' = [value EXCEPT ![a] = new]
             /\ forfeit' = [forfeit EXCEPT ![a] =
                              @ \/ (new # heard[a] /\ new = ToFloat(heard[a]))]
             /\ UNCHANGED <<heard, oldValue>>
    <2>1. \A b \in Adjustments : forfeit[b] => forfeit'[b]
      BY <1>4 DEF Safe, TypeOK
    <2>2. OldValueIsHeard'
      BY <1>4, <2>1 DEF Faithful, OldValueIsHeard
    <2>3. ASSUME NEW b \in Adjustments, Unannounced(b)', ~ forfeit'[b]
          PROVE  \E j \in Knobs : Owes(j, b)'
      <3>1. CASE b # a
        BY <1>1, <1>4, <2>1, <2>3, <3>1
           DEF Faithful, NoLostAnnouncement, Unannounced, Safe, TypeOK
      <3>2. CASE b = a
        <4>1. new # heard[a] /\ ~ forfeit[a] /\ new # ToFloat(heard[a])
          BY <1>4, <2>1, <2>3, <3>2 DEF Unannounced, Safe, TypeOK
        <4>2. oldValue'[k] # value'[a]
          BY <1>4, <4>1 DEF Faithful, OldValueIsHeard, Safe, TypeOK
        <4>3. policy[k] # "CONTINUOUS"
          <5> SUFFICES ASSUME policy[k] = "CONTINUOUS" PROVE FALSE
            OBVIOUS
          <5>1. Unannounced(a)
            BY <1>4, <4>1 DEF Unannounced
          <5>2. PICK j \in Knobs : Owes(j, a)
            BY <4>1, <5>1 DEF Faithful, NoLostAnnouncement
          <5>3. QED
            BY <1>1, <5>2 DEF Owes
        <4>4. Owes(k, a)'
          BY <4>2, <4>3 DEF Owes
        <4>5. QED
          BY <3>2, <4>4
      <3>3. QED
        BY <3>1, <3>2
    <2>4. QED
      BY <2>2, <2>3 DEF Faithful, NoLostAnnouncement
  <1>5. QED
    BY <1>3, <1>4 DEF UpdateMouse

LEMMA MotionFaithful ==
    ASSUME Safe, Faithful, NEW k \in Knobs, NEW mods \in SUBSET Buttons, Motion(k, mods)
    PROVE  Faithful'
  <1>1. adjustment[k] \in Adjustments /\ grab = k
    BY ReceiverFacts DEF Motion
  <1>2. state'[k] = "DRAGGING"
    BY DEF Motion, Safe, TypeOK
  <1>3. ASSUME NEW f \in Floats, UpdateMouse(k, f) PROVE Faithful'
    BY <1>1, <1>2, <1>3, UpdateMouseFaithful DEF Motion
  <1>4. CASE UNCHANGED <<value, heard, forfeit, oldValue>>
    <2>1. \A j \in Knobs, a \in Adjustments : Owes(j, a) => j = k
      BY <1>1, DebtorHoldsGrab
    <2>2. \A j \in Knobs, a \in Adjustments : Owes(j, a) => Owes(j, a)'
      BY <1>2, <1>4, <2>1 DEF Motion, Owes
    <2>3. QED
      BY <1>4, <2>2, QuietFaithful DEF Motion
  <1>5. QED
    BY <1>3, <1>4 DEF Motion

LEMMA TimerCallbackFaithful ==
    ASSUME Safe, Faithful, NEW id \in SourceIds, TimerCallback(id)
    PROVE  Faithful'
  <1> DEFINE a == adjustment[source[id]]
  <1>1. a \in Adjustments /\ value[a] \in Doubles
    BY DEF Safe, TypeOK, SourceHasOwner, TimerCallback
  <1>2. CASE SetAndEmit(a, value[a])
    BY <1>1, <1>2, EmitFaithful DEF TimerCallback
  <1>3. CASE UNCHANGED <<value, heard, forfeit, oldValue>>
    BY <1>3, QuietFaithful DEF TimerCallback, Owes
  <1>4. QED
    BY <1>2, <1>3 DEF TimerCallback

LEMMA AppSetValueFaithful ==
    ASSUME Safe, Faithful, NEW a \in Adjustments, NEW v \in AppValues, AppSetValue(a, v)
    PROVE  Faithful'
  <1> DEFINE w == Clamp(v, Lower, upper[a])
  <1>1. v \in Doubles /\ Lower \in Doubles /\ upper[a] \in Doubles
    BY KnobAssumption DEF Safe, TypeOK
  <1>2. w \in Doubles
    BY <1>1, ClampType
  <1>3. CASE SetAndEmit(a, w)
    BY <1>2, <1>3, EmitFaithful DEF AppSetValue
  <1>4. CASE UNCHANGED <<value, heard, forfeit, oldValue>>
    BY <1>4, QuietFaithful DEF AppSetValue, Owes
  <1>5. QED
    BY <1>3, <1>4 DEF AppSetValue, SetIfDifferent

LEMMA AppConfigureFaithful ==
    ASSUME Safe, Faithful, NEW a \in Adjustments, NEW u \in Uppers, AppConfigure(a, u)
    PROVE  Faithful'
  <1>1. \A b \in Adjustments : forfeit'[b] = (forfeit[b] \/ (b = a /\ Unannounced(b)))
    BY ForfeitedFacts DEF AppConfigure
  <1>2. OldValueIsHeard'
    BY <1>1 DEF AppConfigure, Faithful, OldValueIsHeard, Unannounced
  <1>3. NoLostAnnouncement'
    BY <1>1 DEF AppConfigure, Faithful, NoLostAnnouncement, Unannounced, Owes
  <1>4. QED
    BY <1>2, <1>3 DEF Faithful

LEMMA NextFaithful == Safe /\ Faithful /\ [Next]_vars => Faithful'
  <1> SUFFICES ASSUME Safe, Faithful, [Next]_vars PROVE Faithful'
    OBVIOUS
  <1>1. ASSUME NEW k \in Knobs, KnobStep(k) PROVE Faithful'
    BY <1>1, NewFaithful, SetAdjustmentFaithful, SetUpdatePolicyFaithful, DestroyFaithful,
       FinalizeFaithful, PressFaithful, ReleaseFaithful, MotionFaithful DEF KnobStep
  <1>2. ASSUME NEW a \in Adjustments, AppStep(a) PROVE Faithful'
    BY <1>2, AppSetValueFaithful, AppConfigureFaithful DEF AppStep
  <1>3. ASSUME NEW id \in SourceIds, TimerCallback(id) PROVE Faithful'
    BY <1>3, TimerCallbackFaithful
  <1>4. CASE UNCHANGED vars
    BY <1>4, QuietFaithful DEF vars, adjVars, knobVars, Owes
  <1>5. QED
    BY <1>1, <1>2, <1>3, <1>4 DEF Next

\* Whatever the policies, the timers and the number of knobs that share an
\* adjustment: a change the listeners have not heard is forfeited, by the program
\* or by gfloat precision, or the knob that is being dragged still owes it.
THEOREM NothingLost == Spec => []NoLostAnnouncement
  <1>1. Spec => [](Safe /\ Faithful)
    BY InitSafe, InitFaithful, NextSafe, NextFaithful, PTL DEF Spec
  <1>2. QED
    BY <1>1, PTL DEF Faithful

----------------------------------------------------------------------------
(* From here on: GtkKnob implements AnnouncedValue.  The invariants above  *)
(* say what is owed in a state, and what is left is that no step goes back *)
(* on it.                                                                  *)

\* The listeners of b heard its new value, which is theirs to hear again, or
\* they heard nothing and what was forfeited stays so.
Announces(b) == heard'[b] = value'[b] /\ ~forfeit'[b]
Silences(b) == heard'[b] = heard[b] /\ (forfeit[b] => forfeit'[b])
Honest == \A b \in Adjustments : Announces(b) \/ Silences(b)

----------------------------------------------------------------------------
(* Every action is honest.                                                 *)

\* An emission is heard by the listeners of its own adjustment only.
LEMMA SetAndEmitHonest ==
    ASSUME TypeOK, NEW a \in Adjustments, NEW v, SetAndEmit(a, v)
    PROVE  Honest
  BY DEF SetAndEmit, TypeOK, Honest, Announces, Silences

\* A handler that emits nothing may only forfeit.
LEMMA QuietHonest ==
    ASSUME UNCHANGED heard, \A b \in Adjustments : forfeit[b] => forfeit'[b]
    PROVE  Honest
  BY DEF Honest, Silences

\* Forfeiting is quiet.
LEMMA ForfeitHonest ==
    ASSUME UNCHANGED heard, NEW S, forfeit' = Forfeited(S)
    PROVE  Honest
  BY ForfeitedFacts, QuietHonest

\* A new adjustment is in step with the listeners it will have.
LEMMA FreshHonest ==
    ASSUME TypeOK, NEW a \in Adjustments, Fresh(a), ~forfeit'[a],
           \A b \in Adjustments \ {a} : forfeit[b] => forfeit'[b]
    PROVE  Honest
  BY DEF TypeOK, Fresh, Honest, Announces, Silences

LEMMA NewHonest ==
    ASSUME TypeOK, NEW k \in Knobs, NEW a \in Adjustments, New(k, a)
    PROVE  Honest
  <1>1. CASE Given(a) /\ forfeit' = Forfeited({a})
    BY <1>1, ForfeitHonest DEF Given
  <1>2. CASE Fresh(a) /\ forfeit' = [forfeit EXCEPT ![a] = FALSE]
    BY <1>2, FreshHonest DEF TypeOK
  <1>3. QED
    BY <1>1, <1>2 DEF New

LEMMA SetAdjustmentHonest ==
    ASSUME TypeOK, NEW k \in Knobs, NEW a \in Adjustments, SetAdjustment(k, a)
    PROVE  Honest
  <1>1. CASE Given(a) /\ forfeit' = Forfeited(DraggedBy(k) \union {a})
    BY <1>1, ForfeitHonest DEF Given
  <1>2. CASE Fresh(a) /\ forfeit' = [Forfeited(DraggedBy(k)) EXCEPT ![a] = FALSE]
    <2>1. Forfeited(DraggedBy(k)) \in [Adjustments -> BOOLEAN]
      BY ForfeitedType
    <2>2. ~forfeit'[a] /\ \A b \in Adjustments \ {a} : forfeit'[b] = Forfeited(DraggedBy(k))[b]
      BY <1>2, <2>1
    <2>3. QED
      BY <1>2, <2>2, ForfeitedFacts, FreshHonest
  <1>3. QED
    BY <1>1, <1>2 DEF SetAdjustment

LEMMA SetUpdatePolicyHonest ==
    ASSUME NEW k \in Knobs, NEW p \in Policies, SetUpdatePolicy(k, p)
    PROVE  Honest
  BY ForfeitHonest, QuietHonest DEF SetUpdatePolicy

LEMMA DismantleHonest ==
    ASSUME NEW k \in Knobs, Dismantle(k)
    PROVE  Honest
  BY ForfeitHonest DEF Dismantle

LEMMA ReleaseHonest ==
    ASSUME Safe, NEW k \in Knobs, NEW b \in Buttons, Release(k, b)
    PROVE  Honest
  <1>1. adjustment[k] \in Adjustments
    BY ReceiverFacts DEF Release
  <1>2. ASSUME NEW v, SetAndEmit(adjustment[k], v) PROVE Honest
    BY <1>1, <1>2, SetAndEmitHonest DEF Safe
  <1>3. CASE UNCHANGED <<value, heard, forfeit, oldValue>>
    BY <1>3, QuietHonest
  <1>4. QED
    BY <1>2, <1>3 DEF Release, Click, Drop, SetIfDifferent

LEMMA MotionHonest ==
    ASSUME Safe, NEW k \in Knobs, NEW mods \in SUBSET Buttons, Motion(k, mods)
    PROVE  Honest
  <1>1. adjustment[k] \in Adjustments
    BY ReceiverFacts DEF Motion
  <1>2. ASSUME NEW v, SetAndEmit(adjustment[k], v) PROVE Honest
    BY <1>1, <1>2, SetAndEmitHonest DEF Safe
  <1>3. ASSUME UNCHANGED heard,
               NEW quiet, forfeit' = [forfeit EXCEPT ![adjustment[k]] = @ \/ quiet]
        PROVE  Honest
    <2>1. \A b \in Adjustments : forfeit[b] => forfeit'[b]
      BY <1>3 DEF Safe, TypeOK
    <2>2. QED
      BY <1>3, <2>1, QuietHonest
  <1>4. CASE UNCHANGED <<value, heard, forfeit, oldValue, timer, source>>
    BY <1>4, QuietHonest
  <1>5. ASSUME NEW f \in Floats, UpdateMouse(k, f) PROVE Honest
    BY <1>2, <1>3, <1>5 DEF UpdateMouse
  <1>6. QED
    BY <1>4, <1>5 DEF Motion

LEMMA TimerCallbackHonest ==
    ASSUME Safe, NEW id \in SourceIds, TimerCallback(id)
    PROVE  Honest
  <1> DEFINE a == adjustment[source[id]]
  <1>1. a \in Adjustments
    BY DEF Safe, TypeOK, SourceHasOwner, TimerCallback
  <1>2. CASE SetAndEmit(a, value[a])
    BY <1>1, <1>2, SetAndEmitHonest DEF Safe
  <1>3. CASE UNCHANGED <<value, heard, forfeit, oldValue>>
    BY <1>3, QuietHonest
  <1>4. QED
    BY <1>2, <1>3 DEF TimerCallback

LEMMA AppStepHonest ==
    ASSUME TypeOK, NEW a \in Adjustments, AppStep(a)
    PROVE  Honest
  <1>1. ASSUME NEW v \in AppValues, AppSetValue(a, v) PROVE Honest
    BY <1>1, SetAndEmitHonest, QuietHonest DEF AppSetValue, SetIfDifferent
  <1>2. ASSUME NEW u \in Uppers, AppConfigure(a, u) PROVE Honest
    BY <1>2, ForfeitHonest DEF AppConfigure
  <1>3. QED
    BY <1>1, <1>2 DEF AppStep

LEMMA NextHonest == Safe /\ [Next]_vars => Honest
  <1> SUFFICES ASSUME Safe, [Next]_vars PROVE Honest
    OBVIOUS
  <1> USE DEF Safe
  <1>1. ASSUME NEW k \in Knobs, KnobStep(k) PROVE Honest
    <2>1. ASSUME Destroy(k) \/ Finalize(k) PROVE Honest
      BY <2>1, DismantleHonest DEF Destroy, Finalize
    <2>2. ASSUME NEW b \in Buttons, Press(k, b) PROVE Honest
      BY <2>2, QuietHonest DEF Press, adjVars
    <2>3. QED
      BY <1>1, <2>1, <2>2, NewHonest, SetAdjustmentHonest, SetUpdatePolicyHonest,
         ReleaseHonest, MotionHonest DEF KnobStep
  <1>2. ASSUME NEW a \in Adjustments, AppStep(a) PROVE Honest
    BY <1>2, AppStepHonest
  <1>3. ASSUME NEW id \in SourceIds, TimerCallback(id) PROVE Honest
    BY <1>3, TimerCallbackHonest
  <1>4. CASE UNCHANGED vars
    BY <1>4, QuietHonest DEF vars, adjVars
  <1>5. QED
    BY <1>1, <1>2, <1>3, <1>4 DEF Next

----------------------------------------------------------------------------
(* The refinement.                                                         *)

\* The claim of an adjustment as the refinement mapping states it.
Claim(a) == IF forfeit[a] THEN "FORFEITED"
            ELSE IF \E k \in Knobs : Owes(k, a) THEN "OWED" ELSE "SETTLED"

LEMMA ClaimsType ==
    [a \in Adjustments |-> Claim(a)] \in [Adjustments -> {"SETTLED", "OWED", "FORFEITED"}]
  BY DEF Claim

LEMMA InitPromise == Init => Promise!Init
  <1> SUFFICES ASSUME Init PROVE Promise!Init
    OBVIOUS
  <1>1. TypeOK /\ heard = value
    BY InitSafe DEF Safe, Init
  <1>2. \A a \in Adjustments : Claim(a) = "SETTLED"
    BY NoneIsNothing DEF Init, Claim, Owes
  <1>3. [a \in Adjustments |-> Claim(a)] = [a \in Adjustments |-> "SETTLED"]
    BY <1>2
  <1>4. QED
    BY <1>1, <1>3, ClaimsType DEF Promise!Init, Promise!TypeOK, Claim, TypeOK

\* An honest step to a faithful state is one the promise allows: what nobody owes
\* any more is what the listeners know.
LEMMA StepPromise ==
    ASSUME TypeOK', Faithful', Honest
    PROVE  Promise!Next
  <1>1. Promise!TypeOK'
    BY DEF Promise!TypeOK, TypeOK
  <1>2. ASSUME NEW b \in Adjustments, Announces(b) PROVE Promise!Announce(b)
    BY <1>2 DEF Announces, Promise!Announce
  <1>3. ASSUME NEW b \in Adjustments, Silences(b) PROVE Promise!Silence(b)
    <2>1. CASE forfeit'[b]
      BY <1>3, <2>1 DEF Silences, Promise!Silence
    <2>2. CASE ~forfeit'[b] /\ \E k \in Knobs : Owes(k, b)'
      BY <1>3, <2>2 DEF Silences, Promise!Silence
    <2>3. CASE ~forfeit'[b] /\ ~ \E k \in Knobs : Owes(k, b)'
      <3>1. value'[b] = heard'[b]
        BY <2>3 DEF Faithful, NoLostAnnouncement, Unannounced
      <3>2. QED
        BY <1>3, <2>3, <3>1 DEF Silences, Promise!Silence
    <2>4. QED
      BY <2>1, <2>2, <2>3
  <1>4. QED
    BY <1>1, <1>2, <1>3 DEF Honest, Promise!Next

\* The knobs implement the promise that AnnouncedValue states, whatever their
\* number, the policies, the timers and the numbers: every step announces a value,
\* keeps owing it or forfeits it, and a forfeited one stays so until the next.
THEOREM PromiseKept == Spec => KeepsPromise
  <1>1. Spec => [](Safe /\ Faithful)
    BY InitSafe, InitFaithful, NextSafe, NextFaithful, PTL DEF Spec
  <1>2. Safe /\ Safe' /\ Faithful' /\ [Next]_vars => [Promise!Next]_(Promise!vars)
    BY NextHonest, StepPromise DEF Safe
  <1>3. QED
    BY <1>1, <1>2, InitPromise, PTL DEF Spec, KeepsPromise, Promise!Spec

=============================================================================
