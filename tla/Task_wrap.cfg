SPECIFICATION TaskSpec
CONSTANTS
    Tasks = {t1}
    NoTask = NoTask
    InitCapacities = {1}
    TaskSlots = {s1}
    NoStack = NoStack
    SizeMod = 96
    PageSize = 8
    MinStackSize = 7
    Alignment = 2
    Reserves = {0, 4}
    StackSizes <- AllSizes
    Workers = {w1}
    Coroutines = {c1}
    NoCoroutine = NoCoroutine
    Free = Free
    Values = {0, 1}
INVARIANTS
    UsableAsConfigured
