SPECIFICATION ProtoSpec
CONSTANTS
    Chars <- MCChars
    Clients = {c1, c2}
    CsvKeys <- MCCsvKeys
    PlainKeys <- MCPlainKeys
    Elements <- EqualLengths
    Values <- MCValues
    Stored <- MCStored
    None = None
    MaxCalls = 3
SYMMETRY ClientSymmetry
CHECK_DEADLOCK FALSE
INVARIANTS
    PoppedOnce
PROPERTIES
    ImplementsInterface
