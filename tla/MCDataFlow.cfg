SPECIFICATION Spec
CONSTANTS
    WORD = 3
    KSET_MAXIMAL_CARDINALITY = 2
    Functions <- MCFunctions
    Fixed <- MCFixed
    Start <- MCStart
    SIZE <- MCSIZE
INVARIANTS DominanceExact OrderIsWeak LiveExact SsaForm ReachingDefinition 
CHECK_DEADLOCK FALSE
