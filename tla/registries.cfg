SPECIFICATION RegSpec
CONSTANTS
    Listeners = {l1, l2}
    Ids = {1, 2}
    Matching = {1, 2}
    MaxOrders = 2
    MaxPages = 3
SYMMETRY ListenerSymmetry
VIEW WithoutReply
INVARIANTS
    StableKeysReturned
    ChainAscending
    RegistryPublished
