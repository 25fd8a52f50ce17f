SPECIFICATION BridgeSpec
CONSTANTS
    t1 = t1
    t2 = t2
    t3 = t3
    d1 = d1
    d2 = d2
    Threads = {t1, t2, t3}
    Daemons = {d1, d2}
    NSlots = 2
    NUnits = 2
    QueueLen = 1
    SeqMod = 4
    FirstSeq = 2
    MaxRequests = 2
INVARIANTS
    OwnReply
    SlotOwnership
    SleeperIsPending
    NumbersDiffer
    ConnectedIsServed
PROPERTY
    RequestReturns
