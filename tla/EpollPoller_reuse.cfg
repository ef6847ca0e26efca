SPECIFICATION FairSpec
CONSTANTS
    Fds = {1}
    Tasks = {t1}
    NoTask = NoTask
    Wake = Wake
    InitialCapacity = 1
    GenerationMod = 8
    MaxEvents = 1
    WaitFor = {"read"}
    Conditions = {"EPOLLIN"}
    MaxFiles = 1
    MaxRegistrations = 3
PROPERTIES
    ForgetPreventsStaleReadiness
