SPECIFICATION FairSpec
CONSTANTS
    EventIds = {1, 2}
    Heights <- UpTo3
    Times = {1}
    MaxCount = 3
    ChainNodes = {n1}
    BlockFetchChunkSize = 1
    StoreCanFail = TRUE
    MaxPerBlock = 2
    MaxFaults = 1
INVARIANT LossConfined
PROPERTY RangesDrain
CHECK_DEADLOCK FALSE
