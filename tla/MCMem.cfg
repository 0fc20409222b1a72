\* The in-memory backend: every operation, one caller at a time
CONSTANTS
    Name = {"a", "d", "e", "x", "s"}
    Byte = {0, 1, 2}
    Task = {t1}
    Request <- MCRequest
    Seed <- MCSeed
SPECIFICATION Spec
INVARIANTS
    TypeOK
    ListingMatchesStat
PROPERTIES
    WriteIsInPlace
    RenameMovesTree
