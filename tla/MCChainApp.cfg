SPECIFICATION Spec
CONSTANTS
    n1 = n1
    n2 = n2
    Nodes = {n1, n2}
    Workloads <- Mix
    MaxBlockTxs = 2
    MaxCrashes = 1
SYMMETRY Symmetry
INVARIANTS TypeOK LedgerExact CheckedStaysAuthorised ReplicasAgree
PROPERTY StoredForGood
CHECK_DEADLOCK FALSE
