CONSTANTS
    BaseLocals = 1
    MaxTreeDepth = 2
    None = None
SPECIFICATION Spec
INVARIANT
    ShedComplete
CHECK_DEADLOCK FALSE
