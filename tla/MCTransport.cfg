SPECIFICATION FairSpec
CONSTANTS
    Peers = {"p", "q"}
    Broadcasts = {"b"}
    Unicasts = {"u"}
    UseGossip = {TRUE, FALSE}
INVARIANT AnswersTrue
PROPERTIES
    CallsReturn
    ShutdownReturns
CHECK_DEADLOCK FALSE
