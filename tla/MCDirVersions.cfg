\* Removals, updates and renames of files in two directories
SPECIFICATION FairSpec
CONSTANTS
    p = p
    t1 = t1
    q = q
    Dir = {p, q}
    Entry <- Entries
    Mounted <- AtFirst
    Listed <- OneLists
    Thread = {t1, t2}
    Change <- OnFiles
    MaxVersion = 2
    MaxChanges = 2
    MaxFaults = 1
INVARIANTS
    TypeOK
    CachedListingIsCurrent
    EveryChangeIsTouched
PROPERTIES
    StaleListingsAreFoundOut
