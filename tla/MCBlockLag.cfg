SPECIFICATION Spec
CONSTANTS
    EventIds = {1, 2}
    Heights <- UpTo3
    Times = {1}
    MaxCount = 3
    ChainNodes = {n1, n2}
    BlockFetchChunkSize = 1
    StoreCanFail = FALSE
    MaxPerBlock = 2
    MaxFaults = 0
PROPERTY RangesOnlyShrink
CHECK_DEADLOCK FALSE
