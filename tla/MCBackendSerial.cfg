\* Every operation, two callers on unrelated paths, no failures
CONSTANTS
    Name = {"a", "b", "c", "d", "e", "x", "y", "s"}
    Byte = {0, 1, 2}
    Task = {t1, t2}
    Request <- EveryRequest
    Seed <- SeedTree
    ServerCopy = TRUE
    Serial = TRUE
    MaxFaults = 0
SPECIFICATION Spec
SYMMETRY Symmetry
INVARIANTS
    TypeOK
    NoShadow
PROPERTIES
    ImplementsMem
