SPECIFICATION FairSpec
CONSTANTS
    Log <- TwoEvents
    RetrievePastEvents = TRUE
    MaxQueueSize = 1
    BackoffLen = 2
    Clients = 3
    VerificationCount = 3
    MinimumCount = 1
    AllowSelf = TRUE
    MaxResubmits = 0
    MaxFaults = 3
    MaxStops = 1
INVARIANTS
    TypeOK
    EventsAccounted
    CopiesAccounted
    QueueBounded
    ConfirmedOncePerRun
PROPERTY Settles
CHECK_DEADLOCK FALSE
