SPECIFICATION Spec
CONSTANTS
    WORD = 3
    KSET_MAXIMAL_CARDINALITY = 2
    VERSION_LIMIT = 1
    MaxSteps = 4
    r1 = r1
    r2 = r2
    zf = zf
    Registers <- MCRegisters
INVARIANTS  KsetSound AbsoluteExact
CHECK_DEADLOCK FALSE
SYMMETRY Exchange
