CONSTANTS
    A = A  B = B  C = C  D = D  E = E  F = F  f1 = f1  f2 = f2  f3 = f3
    None = None
    Fns = {f1, f2, f3}
    FnTypes <- MCFnTypes
    SigLen <- MCSigLen
    AbiPanics = {f2}
    MaxStack = 7
    Types = {A, B, C, D, E, F}
    Fields <- MCFields
    PanicTypes = {E}
    ByValue <- MCByValue
    Name <- MCName
SPECIFICATION SysSpec
INVARIANTS
    NoStaleCycleGuard
PROPERTY
    EveryCachedTypeExported
CHECK_DEADLOCK FALSE
