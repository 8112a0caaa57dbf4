\* Whether the handler of an error is that of the protected call under way.
SPECIFICATION Spec
CONSTANTS
    main = main
    co = co
    co2 = co2
    Threads = {main, co, co2}
    MainThread = main
    MaxCCalls = 5
    ErrorRoom = 1
    MaxFrames = 4
    MaxAllFrames = 8
    AnyThread = FALSE
SYMMETRY Symmetry
INVARIANT
    ErrfuncIsCurrent
