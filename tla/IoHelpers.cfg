SPECIFICATION FairSpec
CONSTANTS
    Callers = {t1, t2}
    Workers = {w1, w2}
    Nowhere = Nowhere
    Ops = {"write", "accept", "nonblock"}
INVARIANTS
    ErrnoTellsCause
    AcceptedReturnedOrClosed
PROPERTIES
    CallReturns
