CONSTANTS
    MaxTreeDepth = 2
    WithLocAlloc = FALSE
SPECIFICATION Spec
INVARIANTS
    StackBalanced
CHECK_DEADLOCK FALSE
