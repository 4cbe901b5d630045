SPECIFICATION Spec
CONSTANTS
    Conns = {"c1", "c2"}
    Getters = {"g1", "g2"}
    Listers = {"all"}
INVARIANT DeadAreRemoved
CHECK_DEADLOCK FALSE
