\* Two controls on one adjustment or one control on two, with a fair main loop.
SPECIFICATION MCSpec
CONSTANTS
    Doubles = {0, 3, 5}
    Floats = {0, 3}
    Lower = 0
    Uppers = {5}
    Middle <- MCMiddle
    AppValues = {5}
    RadioValues = {0, 3}
    Whole = {0, 3}
    PreferRadial = FALSE
    Types = {"ROTARY", "HORIZONTAL", "BUTTON", "SWITCH", "RADIO"}
    Controls = {c1, c2}
    Adjustments = {a1, a2}
    SourceIds = {s1, s2, s3}
    None = None
    OtherControl = c2
    OtherAdjustment = a2
INVARIANTS
    NothingLeftBehind
    NoLostAnnouncement
PROPERTIES
    KeepsPromise
    DelayedAnnounced
