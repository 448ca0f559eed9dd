SPECIFICATION Spec
CONSTANTS
    WORD = 3
    KSET_MAXIMAL_CARDINALITY = 2
    Functions <- MCFunctions
    Fixed <- MCFixed
    Start <- MCStart
    SIZE <- MCSIZE
INVARIANT ApproximateEnds
CHECK_DEADLOCK FALSE
