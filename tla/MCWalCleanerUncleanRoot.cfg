CONSTANTS
    d1 = d1
    d2 = d2
    admin = admin
    Loop = Loop
    Dirs <- MCDirs
    Unreadable <- MCUnreadable
    Callers <- MCCallersLoopOnly
    MinAge = 1
    InitTime = 2
    MaxTime = 3
    WalRootClean = FALSE

SPECIFICATION Spec

INVARIANT PassMatchesSpec
