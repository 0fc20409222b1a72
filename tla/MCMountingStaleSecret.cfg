\* One task at a time: the Keychain holds an older secret than the disk
CONSTANTS
    memory = memory
    a = a
    home = home
    s1 = s1
    s2 = s2
    cut = cut
    Cut = cut
    NoSecret = NoSecret
    Name = {memory, a}
    Memory = memory
    Folder = {home}
    Secret = {s1, s2, cut}
    Form <- NewSecret
    Task = {t1}
    Signed = TRUE
    Serial = TRUE
SPECIFICATION Spec
PROPERTIES
    SuppliedSecretIsUsed
