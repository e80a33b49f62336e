\* Two immediate collections, one request and the worker's loop at a time, for
\* one switch.  With three worker objects an Add always finds a free one
\* (CollectionsHoldUpNoAdd in CollectionProofs).
CONSTANTS
    Switches = {s1}
    Requests = {r1}
    Workers = {w1, w2, w3}
    Passwords = {p1}
    Blank = Blank
    Flags = {TRUE}
    StoreMayFail = TRUE
    NoRow = NoRow
    NoWorker = NoWorker
    Runs = {c1, c2}
    MaxConf = 0
    NoSnap = NoSnap
    Unread = Unread
    SwitchMayFail = FALSE
    ForeignKeys = FALSE
SPECIFICATION CSpec
INVARIANTS
    MemoryIsOwn
    UnmarkedOnlyIfCleared
    MarkHasRun
    UIAgreesWithMetrics
SYMMETRY Symmetry
