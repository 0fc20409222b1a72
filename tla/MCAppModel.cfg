\* The launch and two tasks of the user, on two connections to mount when launching
CONSTANTS
    a = a
    b = b
    Conn = {a, b}
    OnLaunch = {a, b}
    Launch = launch
    User = {u1}
    Unread = unread
    Shown = shown
    Worlds <- SomeWorlds
    MaxClicks = 2
SPECIFICATION Spec
CHECK_DEADLOCK FALSE
INVARIANTS
    TypeOK
    OnlyOvertakenRowsAreStale
PROPERTIES
    LaunchLeavesNoneBehind
    EveryRefreshEnds
