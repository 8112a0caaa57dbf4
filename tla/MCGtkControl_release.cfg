\* Whether a drag that is over has been announced.
SPECIFICATION Spec
CONSTANTS
    Doubles = {0, 3, 6}
    Floats = {0, 3, 6}
    Lower = 0
    Uppers = {6}
    Middle <- MCMiddle
    AppValues = {0, 6}
    RadioValues = {0, 3, 6}
    Whole = {0, 3}
    PreferRadial = FALSE
    Types = {"ROTARY"}
    Controls = {c1}
    Adjustments = {a1}
    SourceIds = {s1, s2}
    None = None
    OtherControl = c2
    OtherAdjustment = a2
INVARIANT
    ReleaseAnnounces
