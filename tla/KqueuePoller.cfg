SPECIFICATION FairSpec
CONSTANTS
    Fds = {1}
    Tasks = {t1, t2}
    NoTask = NoTask
    Wake = Wake
    MaxEvents = 2
    PipeSize = 2
    WaitFor = {"read", "write"}
    Conditions = {"IN", "OUT", "EOF"}
    MaxFiles = 2
INVARIANTS
    FiltersMatchWaits
    EdgeNotLost
PROPERTIES
    ReadyWaitIsServed
