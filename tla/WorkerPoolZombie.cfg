\* A delete that races an add or an update; no statement fails.
CONSTANTS
    Switches = {s1}
    Requests = {r1, r2}
    Workers = {w1, w2}
    Passwords = {p1}
    Blank = Blank
    Flags = {TRUE, FALSE}
    StoreMayFail = FALSE
    NoRow = NoRow
    NoWorker = NoWorker
SPECIFICATION Spec
INVARIANTS
    DeletedIsNotPolled
