\* Operator calls fail, with or without their effect; two callers on unrelated paths
CONSTANTS
    Name = {"a", "b", "c", "d", "e", "x", "y", "s"}
    Byte = {0, 1, 2}
    Task = {t1, t2}
    Request <- FaultRequests
    Seed <- SeedDir
    ServerCopy = TRUE
    Serial = TRUE
    MaxFaults = 2
SPECIFICATION FairSpec
INVARIANTS
    RenameOkMovesAll
    NoShadow
PROPERTIES
    RenameKeepsBytes
    OnlyBlindCreatesClobber
    CallsGetOn
    EveryCallReturns
