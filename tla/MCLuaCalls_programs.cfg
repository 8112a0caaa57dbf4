\* A program with a coroutine on a small C stack, which may stop.
SPECIFICATION Spec
CONSTANTS
    main = main
    co = co
    co2 = co2
    Threads = {main, co, co2}
    MainThread = main
    MaxCCalls = 5
    ErrorRoom = 1
    MaxFrames = 4
    MaxAllFrames = 7
    AnyThread = FALSE
SYMMETRY Symmetry
INVARIANTS
    FieldsRestored
    YieldsReachResume
    StatusTells
PROPERTIES
    ErrorEndsInnermost
