SPECIFICATION FairSpec
CONSTANTS
    EventIds = {a}
    NoEvent = none
    Heights = {1}
    Times <- UpTo3
    MaxCount = 2
    PeerEvents = {a}
    EventFetchChunkSize = 1
    EventMaxRetries = 1
    EventRetryInterval = 1
    NewEventIgnoreThreshold = 2
    TryUnicastFirst = TRUE
    StoreCanFail = TRUE
    HandlerCanFail = TRUE
    MaxFaults = 1
    MaxLosses = 1
INVARIANT NotAskedTooSoon
PROPERTY StoredUnmarked
