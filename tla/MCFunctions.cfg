\* y_sscanf(): numbers with signs, zeros, a digit, both points, an exponent and a
\* letter, in a significand that has room for two digits or three, but not for
\* 707; and formats of up to three items, with an int32_t of eight bits.  Lua
\* tables of two names and four indices; patterns of up to five items; texts of up
\* to eight statements.  For ylua every command line of up to three arguments, two
\* interrupts and a chunk at the prompt.  A behaviour ends with its call or text, or
\* when the interpreter exits.
SPECIFICATION MCSpec
CONSTANTS
    MaxWords = 3
    Commands <- MCCommands
    MaxSignals = 2
    MaxLines = 1
    FloatChars = {"-", "0", "7", ".", ",", "e", "x"}
    MaxFloat = 5
    BufferChars = {" ", "-", "7", "a", "%"}
    MaxBuffer = 3
    Items <- MCItems
    MaxItems = 3
    Cases <- MCCases
    DecimalPoint = ","
    IntMax = 705
    Int32 = 128
    NIL = NIL
    nameA = nameA
    nameB = nameB
    Names = {nameA, nameB}
    Invalid = Invalid
    Indices = {1, 2, 3, 4}
    Hash <- MCHash
    MaxInt = 4
    Sizes <- MCSizes
    Calls <- MCCalls
    MaxCaptures = 2
    VariableNames = {"x"}
    LabelNames = {"l"}
    MaxNesting = 3
    Menus <- MCMenus
CHECK_DEADLOCK FALSE
INVARIANTS
    RunsAsAsked
    ExitTells
    ScanRight
    TableRight
    TraversalComplete
    PatternsRight
    NamesResolved
    GotosRight
    UpvaluesClosed
PROPERTIES
    KilledOnlyAgain
