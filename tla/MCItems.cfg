\* Two handlers at a time, a rename to a new name and one to a hidden name
CONSTANTS
    Name = {"a", "b", "d", "e", "x", ".Trashes"}
    Litter = {".Trashes"}
    Node <- TwoNames
    Renames <- RenameName
    Instance = {i1, i2, i3}
    NoItem = none
    Thread = {t1, t2}
    MaxHeld = 1
SPECIFICATION Spec
SYMMETRY Symmetry
VIEW View
INVARIANTS
    TypeOK
    ItemsStayAlive
    CacheHoldsWhatFSKitKnows
    HiddenStaysOutOfSight
