CONSTANTS
    None = None
    Locals <- MCLocals
    Args <- MCArgs
    FieldDefs <- MCFieldDefs
    Sigs <- MCSigs
    TypeNames <- MCTypeNames
    Binary <- MCBinary
    Leaves <- MCLeaves
    Unary <- MCUnary
    MaxDepth = 4
    MaxRuns = 2
SPECIFICATION Spec
INVARIANTS
    OptPreservesType
PROPERTY
    OptIdempotent
CHECK_DEADLOCK FALSE
