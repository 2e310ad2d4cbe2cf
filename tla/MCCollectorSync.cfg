CONSTANTS
    e1 = e1
    e2 = e2
    e3 = e3
    e4 = e4
    e5 = e5
    e6 = e6
    e7 = e7
    e8 = e8
    e9 = e9
    Kinds <- MCKinds
    ExpConfigs <- MCExpConfigs
    ExpKind <- MCExpKind
    UserVal = UserVal
    Dflt = Dflt
    Unset = Unset
    NilPtr = NilPtr
    Absent = Absent

SPECIFICATION MCSpec

INVARIANT TypeOK
INVARIANT TranslateExact
INVARIANT SyncExact
