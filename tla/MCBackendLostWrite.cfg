\* Two writes of different slices of one file
CONSTANTS
    Name = {"a", "b", "c", "d", "e", "x", "y", "s"}
    Byte = {0, 1, 2}
    Task = {t1, t2}
    Request <- TwoWrites
    Seed <- SeedTree
    ServerCopy = TRUE
    Serial = FALSE
    MaxFaults = 0
SPECIFICATION Spec
INVARIANTS
    WrittenSliceStands
