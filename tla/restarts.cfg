SPECIFICATION Spec
CONSTANTS
    WoIds = {1, 2, 3}
    Workers = {w1}
    Managers = {w1}
    WorkerOf <- MCWorkerOf
    MaxWorkOrderCount = 1
    Listeners = {l1}
    ReceiptIds = {2}
    MaxSubmits = 1
    MaxListenerRestarts = 1
    RaisingIds = {1}
    MaxManagerCrashes = 1
INVARIANTS
    CapacityInv
    RequestHasTimestamp
    NoOrphanRecords
    AcceptedOrderKnown
    AtMostOnceExecution
