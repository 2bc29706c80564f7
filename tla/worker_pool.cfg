SPECIFICATION PoolSpec
CONSTANTS
    WoIds = {1, 2}
    Workers = {w1}
    Pool = w1
    Kme = kme
    Managers = {kme, p1, p2}
    Mismatched = {}
    WorkerOf <- MCWorkerOf
    MaxWorkOrderCount = 2
    Listeners = {l1}
    ReceiptIds = {}
    MaxSubmits = 1
    MaxListenerRestarts = 0
    RaisingIds = {2}
    MaxManagerCrashes = 1
INVARIANTS
    OneOrderLostPerDeath
    UniqueKeyRedeemedOnce
    AnsweredOrderPurgeable
    PublishedKeyInUse
PROPERTIES
    PoolAnswers
CHECK_DEADLOCK FALSE
