SPECIFICATION ProtocolSpec
CONSTANTS
    Clients = {1, 2}
    Kinds = {"sgx", "graphene", "wpe"}
    MaxFaults = 2
    Programs <- MCPrograms
INVARIANTS
    AcceptedResultCorrect
PROPERTIES
    PublishedKeyKept
    EveryOrderAnswered
    GoodOrderServed
CHECK_DEADLOCK FALSE
