SPECIFICATION ProtocolSpec
CONSTANTS
    Clients = {1, 2}
    Kinds = {"graphene"}
    MaxFaults = 0
    Programs <- MCPrograms
INVARIANTS
    MixedItemsDecrypted
CHECK_DEADLOCK FALSE
