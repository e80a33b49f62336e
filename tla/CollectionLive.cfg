\* One worker object (a request waits for it), one immediate collection; the
\* switch changes once, pages may fail to load.
CONSTANTS
    Switches = {s1}
    Requests = {r1}
    Workers = {w1}
    Passwords = {p1}
    Blank = Blank
    Flags = {TRUE}
    StoreMayFail = FALSE
    NoRow = NoRow
    NoWorker = NoWorker
    Runs = {c1}
    MaxConf = 1
    NoSnap = NoSnap
    Unread = Unread
    SwitchMayFail = TRUE
    ForeignKeys = FALSE
SPECIFICATION CFairSpec
PROPERTIES
    MarksClear
    SavedCatchesUp
