SPECIFICATION Spec
CONSTANTS
    WoIds = {1, 2}
    Workers = {w1}
    Managers = {w1}
    WorkerOf <- MCWorkerOf
    MaxWorkOrderCount = 1
    Listeners = {l1, l2}
    ReceiptIds = {}
    MaxSubmits = 1
    MaxListenerRestarts = 0
    RaisingIds = {}
    MaxManagerCrashes = 0
INVARIANTS
    StoreWithinLimit
SYMMETRY ListenerSymmetry
