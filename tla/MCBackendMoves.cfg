\* Renames of overlapping trees race, on a service without a server-side copy
CONSTANTS
    Name = {"a", "b", "c", "d", "e", "x", "y", "s"}
    Byte = {0, 1, 2}
    Task = {t1, t2}
    Request <- RacingRenames
    Seed <- SeedTwo
    ServerCopy = FALSE
    Serial = FALSE
    MaxFaults = 1
SPECIFICATION Spec
SYMMETRY Symmetry
INVARIANTS
    SeededBytesSurvive
