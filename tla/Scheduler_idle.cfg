SPECIFICATION Spec
CONSTANTS
    Workers = {w1, w2}
    Tasks = {m, t1}
    Main = m
    Threads = {e}
    MainThread = mt
    Fds = {}
    NoTask = NoTask
    Free = Free
    WaitFor = {}
SYMMETRY Symmetry
INVARIANT
    PollerWokenWhenNoneIdle
