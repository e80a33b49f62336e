\* One immediate collection and one request; nothing fails.
CONSTANTS
    Switches = {s1}
    Requests = {r1}
    Workers = {w1}
    Passwords = {p1}
    Blank = Blank
    Flags = {TRUE}
    StoreMayFail = FALSE
    NoRow = NoRow
    NoWorker = NoWorker
    Runs = {c1}
    MaxConf = 0
    NoSnap = NoSnap
    Unread = Unread
    SwitchMayFail = FALSE
    ForeignKeys = FALSE
SPECIFICATION CSpec
INVARIANTS
    MarkedMeansCollecting
