\* One handler at a time: reclaim of an item that was replaced
CONSTANTS
    Name = {"a", "b", "d", "e", "x", ".Trashes"}
    Litter = {".Trashes"}
    Node <- OneName
    Renames <- NoRename
    Instance = {i1, i2, i3, i4}
    NoItem = none
    Thread = {t1}
    MaxHeld = 1
SPECIFICATION Spec
INVARIANT OneItemPerFileID
