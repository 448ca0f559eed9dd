CONSTANTS
    WORD = 64
    flashend = 4095
    Mos6502Inputs <- MCMos6502Inputs
    AvrInputs <- MCAvrInputs
    Amd64Inputs <- MCAmd64Inputs
SPECIFICATION Spec
INVARIANTS WellFormed OperandsDefined  EffectExact
CHECK_DEADLOCK FALSE
