SPECIFICATION Spec
CONSTANTS
    Clients = {"c1"}
    Events = {"e1", "e2"}
    FilterLists <- Lists
    Tasks = {"handler", "dropper"}
    FirstListeners <- Listeners
    MaxTicks = 1
INVARIANT TypeOK
PROPERTIES
    SubmissionsReturn
    ClientsLeave
    StoppedMeansStopped
    
CHECK_DEADLOCK FALSE
