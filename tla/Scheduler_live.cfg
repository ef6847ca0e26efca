SPECIFICATION FairSpec
CONSTANTS
    Workers = {w1, w2}
    Tasks = {m, t1}
    Main = m
    Threads = {}
    MainThread = mt
    Fds = {f1}
    NoTask = NoTask
    Free = Free
    WaitFor = {"read"}
PROPERTIES
    StopLeadsToReturn
    QueuedTaskRuns
    ReadyIoIsDelivered
