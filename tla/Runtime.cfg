SPECIFICATION Spec
CONSTANTS
    Owner = Owner
    Threads = {u1, u2}
    Workers = {w1, w2}
    Tasks = {MainTask, t1, t2}
    MainTask = MainTask
    NoTask = NoTask
SYMMETRY Symmetry
INVARIANTS
    InitAllOrNothing
    WorkersOutlivedByStorage
    ShutdownFreesAll
    MemoryFollowsTasks
PROPERTIES
    ShutdownIsFinal
