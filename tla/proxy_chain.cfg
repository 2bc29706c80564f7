CONSTANTS
    Workers = {1}
    Orders = {1, 2}
    Chains <- BothChains
    MaxFaults = 1
    MaxWaiting = 1
    Waiting = {1}
SPECIFICATION FairProxySpec
INVARIANTS
    RecordedDetailsOnChain
    ErrorsHaveCause
    AnswerIsOnChain
PROPERTIES
    ResultStable
    OrdersCompleted
    RoundsReachChain
CHECK_DEADLOCK FALSE
