SPECIFICATION FairSpec
CONSTANTS
    Nodes = {"a", "b", "c"}
    Messages = {"big"}
    Source <- Sources
    Size <- Sizes
    PackedSize <- PackedSizes
    Mtus = {0, 1, 3, 4}
    MaxFrameCount = 2
    Multiplier = 2
    MaxPanics = 3
INVARIANTS
    TypeOK
    
PROPERTIES
    Refinement
    Quiesces
CHECK_DEADLOCK FALSE
