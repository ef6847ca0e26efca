SPECIFICATION FairSpec
CONSTANTS
    Fds = {1}
    Tasks = {t1, t2}
    NoTask = NoTask
    Wake = Wake
    InitialCapacity = 1
    GenerationMod = 8
    MaxEvents = 1
    WaitFor = {"read", "write"}
    Conditions = {"EPOLLIN", "EPOLLOUT", "EPOLLHUP"}
    MaxFiles = 2
    MaxRegistrations = 3
INVARIANTS
    RegistrationsMatchWaits
PROPERTIES
    ToldOfOwnFile
    ReadyWaitIsServed
