CONSTANTS
    MaxTreeDepth = 1
    WithLocAlloc = TRUE
SPECIFICATION Spec
INVARIANT
    StackBalanced
CHECK_DEADLOCK FALSE
