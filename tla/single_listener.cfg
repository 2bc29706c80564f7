SPECIFICATION Spec
CONSTANTS
    WoIds = {1, 2, 3}
    Workers = {w1}
    Managers = {w1}
    WorkerOf <- MCWorkerOf
    MaxWorkOrderCount = 2
    Listeners = {l1}
    ReceiptIds = {}
    MaxSubmits = 2
    MaxListenerRestarts = 0
    RaisingIds = {}
    MaxManagerCrashes = 0
INVARIANTS
    TypeOK
    StoreWithinLimit
    PurgeVictimListed
    CountMatchesStore
    NoAcceptedOrderLost
    ResponseAnswersRequest
    NoPendingAfterResult
    BusyOnlyWhenFull
    AcceptedOnce
