CONSTANTS
    BaseLocals = 1
    MaxTreeDepth = 3
    None = None
SPECIFICATION Spec
INVARIANTS
    TypeOK
    TmpLoadsReadOwnSlot
    TmpWrittenBeforeRead
PROPERTY
    AllocIdempotent
CHECK_DEADLOCK FALSE
