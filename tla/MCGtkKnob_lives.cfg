\* Two knobs on one adjustment or one knob on two, with a fair main loop and a
\* user who lets go.
SPECIFICATION MCSpec
CONSTANTS
    Doubles = {0, 3, 5}
    Floats = {0, 3}
    Lower = 0
    Uppers = {5}
    AppValues = {5}
    Knobs = {k1, k2}
    Adjustments = {a1, a2}
    SourceIds = {s1, s2, s3}
    None = None
    OtherKnob = k2
    OtherAdjustment = a2
INVARIANTS
    SourceHasOwner
    GrabMatchesGesture
    NoLostAnnouncement
PROPERTIES
    KeepsPromise
    EventuallyAnnounced
