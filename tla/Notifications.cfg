CONSTANTS
    Channels = {1, 2, 3}
    FirstChannels <- TwoChannels
    Edited <- SomeRows
    MaxAlerts = 2
    Deadline = 1
    MaxEdits = 1
    None = None
SPECIFICATION FairSpec
PROPERTIES
    ImplementsDelivery
    LatestVerdictLast
    AlertsEnd
\* All alerts have ended and nobody edits any more.
CHECK_DEADLOCK FALSE
