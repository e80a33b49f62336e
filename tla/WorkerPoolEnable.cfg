\* One request at a time; no statement fails.
CONSTANTS
    Switches = {s1}
    Requests = {r1}
    Workers = {w1, w2}
    Passwords = {p1}
    Blank = Blank
    Flags = {TRUE, FALSE}
    StoreMayFail = FALSE
    NoRow = NoRow
    NoWorker = NoWorker
SPECIFICATION Spec
INVARIANTS
    EnabledHasWorker
