SPECIFICATION Spec
CONSTANTS
    Events = {"old", "also", "twin"}
    ReceivedTime <- Received
    PrincipalOf <- Principals
    Policies <- Deployable
    ChainNodes = {"n1", "n2"}
    MinimumNodes = 2
    Challenges = {"c"}
    Responders = {"r1", "r2"}
    Lifetime = 2
    MaxTime = 4
    MaxFaults = 1
INVARIANT OneTokenPerChallenge
PROPERTIES
    
    AnswerableKept
    Enforced
CHECK_DEADLOCK FALSE
