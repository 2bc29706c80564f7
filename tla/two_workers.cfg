SPECIFICATION FairSpec
CONSTANTS
    WoIds = {1, 2, 3}
    Workers = {w1, w2}
    Managers = {w1, w2}
    WorkerOf <- MCWorkerOf
    MaxWorkOrderCount = 2
    Listeners = {l1}
    ReceiptIds = {}
    MaxSubmits = 1
    MaxListenerRestarts = 0
    RaisingIds = {}
    MaxManagerCrashes = 0
PROPERTIES
    EveryOrderAnswered
    ListenerServes
