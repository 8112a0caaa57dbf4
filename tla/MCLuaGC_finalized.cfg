\* A userdata that is finalized together with its metatable.
SPECIFICATION Spec
CONSTANTS
    main = main
    co = co
    reg = reg
    t = t
    wv = wv
    wk = wk
    wkv = wkv
    fin = fin
    ud = ud
    string = string
    cl = cl
    cl2 = cl2
    uv = uv
    uv2 = uv2
    pr = pr
    NULL = NULL
    Number = Number
    Tables = {reg, t, wv, wk, wkv, fin}
    Userdata = {ud}
    Strings = {string}
    Threads = {main, co}
    Closures = {cl, cl2}
    Upvals = {uv, uv2}
    Protos = {pr}
    MainThread = main
    Registry = reg
    Mode <- MCMode
    Finalizers = {fin}
    Programs <- MCFinalized
    SweepMax = 1
    MaxStack = 2
    MaxEntries = 1
    MaxCalls = 1
INVARIANTS
    TraversesGrays
