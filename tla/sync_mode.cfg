SPECIFICATION SyncSpec
CONSTANTS
    WoIds = {1, 2}
    Workers = {w1, w2}
    Managers = {w1, w2}
    WorkerOf <- MCWorkerOf
    ZmqTarget = w1
    MaxWorkOrderCount = 1
    Listeners = {l1}
    ReceiptIds = {}
    MaxSubmits = 1
    MaxListenerRestarts = 1
    RaisingIds = {1}
    MaxManagerCrashes = 1
INVARIANTS
    SyncReturnsResult
    NoHeadOfLineBlocking
PROPERTIES
    SyncServes
CHECK_DEADLOCK FALSE
