\* Two objects with three userdata; the program may stop.
SPECIFICATION Spec
CONSTANTS
    NULL = NULL
    Wanted <- MCWanted
    MaxObjects = 2
    Userdata = {u1, u2, u3}
SYMMETRY MCSymmetry
INVARIANTS
    RefsMatch
    MethodsFit
    Inherits
    Recognised
CHECK_DEADLOCK FALSE
