\* Paths of up to five components, forms with up to two symbols typed, listings of up to four entries
CONSTANTS
    Name = {"a", "b"}
    Identifier = {"n", "w", "bucket", "on"}
    Scheme = {"http://"}
    HiddenExact <- HiddenNames
    MaxComponents = 5
    MaxTyped = 2
    MaxOutput = 4
    MaxEntries = 4
    Dirty = {"s2-dirty"}
    MaxModules = 2
SPECIFICATION Spec
CHECK_DEADLOCK FALSE
INVARIANTS
    TypeOK
    NormalizeIsReference
    ParentAndBasename
    RekeyInverts
    ConfigArrives
    SecretArrives
    MountIsFound
    ProbeIsRead
    PagesShowEachEntryOnce
    CloudMeansRightBuild
