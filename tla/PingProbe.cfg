\* One worker, at most four probes, the code's threshold of two.
CONSTANTS
    PingThreshold = 2
    MaxProbes = 4
SPECIFICATION FairSpec
INVARIANTS
    TypeOK
    OfflineMeansFailures
    EventsAlternate
    EachEventHasOneCarrier
PROPERTIES
    ImplementsReachability
    EventuallyDelivered
    StopQuiesces
\* A stopped worker whose probes have finished has nothing left to do.
CHECK_DEADLOCK FALSE
