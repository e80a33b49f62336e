\* One switch, two requests that race for its worker, crashes at any step.
\* Two worker objects: one that is being stopped and one that replaces it.
CONSTANTS
    Switches = {s1}
    Requests = {r1, r2}
    Workers = {w1, w2}
    Passwords = {p1}
    Blank = Blank
    Flags = {TRUE, FALSE}
    StoreMayFail = TRUE
    NoRow = NoRow
    NoWorker = NoWorker
SPECIFICATION FairSpec
INVARIANTS
    TypeOK
    AtMostOneLoop
    StopClosedOnce
    StartNeverRefused
    AloneRunsStoredConfig
PROPERTIES
    DeletedStaysDeleted
    ImplementsSingleRunner
    RequestsEnd
