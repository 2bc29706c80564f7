SPECIFICATION Spec
CONSTANTS
    WoIds = {1, 2}
    Workers = {w1}
    Managers = {w1}
    WorkerOf <- MCWorkerOf
    MaxWorkOrderCount = 2
    Listeners = {l1}
    ReceiptIds = {}
    MaxSubmits = 1
    MaxListenerRestarts = 1
    RaisingIds = {}
    MaxManagerCrashes = 0
INVARIANTS
    NoAcceptedOrderLost
