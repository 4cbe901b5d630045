SPECIFICATION Spec
CONSTANTS
    EventIds = {a, b}
    NoEvent = none
    Heights = {1}
    Times = {0}
    MaxCount = 2
    PeerEvents = {a}
    EventFetchChunkSize = 1
    EventMaxRetries = 2
    EventRetryInterval = 0
    NewEventIgnoreThreshold = 0
    TryUnicastFirst = TRUE
    StoreCanFail = FALSE
    HandlerCanFail = FALSE
    MaxFaults = 1
    MaxLosses = 1
INVARIANTS TypeOK IndexConsistent  
PROPERTIES KeysNeverReused 
