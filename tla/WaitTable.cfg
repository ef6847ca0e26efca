SPECIFICATION Spec
CONSTANTS
    Fds = {f1, f2, f3, f4}
    NoFd = NoFd
    Tasks = {t1, t2, t3, t4}
    NoTask = NoTask
    InitialCapacity = 1
SYMMETRY Symmetry
CHECK_DEADLOCK FALSE
INVARIANTS
    TableShape
    PollerKnowsWaits
PROPERTIES
    ImplementsMap
