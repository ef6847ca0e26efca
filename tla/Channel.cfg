SPECIFICATION Spec
CONSTANTS
    Tasks = {t1, t2, t3}
    unbuf = unbuf
    buf = buf
    BufCapacity = 2
    Channels = {unbuf, buf}
    Capacity <- CapacityOf
    SelectCalls <- AllCalls
    MaxSends = 1
    NoChannel = NoChannel
    NoValue = NoValue
    NoCall = NoCall
SYMMETRY Symmetry
INVARIANTS
    FifoNoLossNoDuplicate
    WaitsAreJustified
    NoDanglingWaiter
    ParkedTaskIsLinked
    ResultMatchesTransfer
PROPERTIES
    ClosedAcceptsNothing
CHECK_DEADLOCK FALSE
