SPECIFICATION Spec
CONSTANTS
    Workers = {w1, w2}
    Tasks = {m, t1}
    Main = m
    Threads = {e}
    MainThread = mt
    Fds = {f1}
    NoTask = NoTask
    Free = Free
    WaitFor = {"read", "write"}
SYMMETRY Symmetry
INVARIANTS
    TaskInOnePlace
    SleepersHavePoller
    NoLostWakeup
    ShutdownCancelsChannelWaits
    NoLeak
PROPERTIES
    ImplementsLifecycle
