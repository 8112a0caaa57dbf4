\* Two handlers of one object, a signal's and a timeout's, that run inside each
\* other and fail, and a coroutine.  The program may stop for good: it need not
\* do anything.
SPECIFICATION FairSpec
CONSTANTS
    Objects = {o1}
    Proxies = {p1, p2, p3}
    Closures = {c1}
    Sources = {t1}
    Slots = {1, 2, 3, 4, 5, 6}
    Coroutines = {co1}
    CoroutinesKept = TRUE
    Arguments = {"user_data"}
    Capturing = {c1}
    MaxDepth = 2
    MaxErrors = 1
    None = None
CHECK_DEADLOCK FALSE
INVARIANTS
    NoDanglingProxy
    RegistryBelongs
PROPERTIES
    KeptWhileConnected
    AbandonedGoes
