SPECIFICATION TaskSpec
CONSTANTS
    Tasks = {t1, t2, t3, t4}
    NoTask = NoTask
    InitCapacities = {1, 2, 3}
    TaskSlots = {s1, s2, s3}
    NoStack = NoStack
    SizeMod = 96
    PageSize = 8
    MinStackSize = 7
    Alignment = 2
    Reserves = {0, 4}
    StackSizes <- UnwrappedSizes
    Workers = {w1, w2}
    Coroutines = {c1, c2}
    NoCoroutine = NoCoroutine
    Free = Free
    Values = {0, 1}
SYMMETRY Symmetry
INVARIANTS
    QueuedFlagExact
    StackIsOwn
    NothingLeaks
    UsableAsConfigured
    OneThreadPerStack
    SchedulerUndisturbed
PROPERTIES
    ImplementsFifo
    ResumesWhatItLeft
