\* Two tasks that leave alone what the other works on; the application dies at any time.
\* A secret read from a file cut short is here the same as the one that was stored; in
\* MCMountingStaleSecret it is another.
CONSTANTS
    memory = memory
    a = a
    home = home
    s1 = s1
    s2 = s2
    cut = cut
    Cut = s1
    NoSecret = NoSecret
    Name = {memory, a}
    Memory = memory
    Folder = {home}
    Secret = {s1}
    Form <- SomeForms
    Task = {t1, t2}
    Signed = TRUE
    Serial = TRUE
SPECIFICATION Spec
SYMMETRY Symmetry
INVARIANTS
    TypeOK
    KeychainFlagIsTrue
    DeletedIsGone
    ReadyMeansServed
