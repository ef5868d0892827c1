SPECIFICATION Spec
CONSTANTS
    Keys <- ErrorKeys
    HostOps <- ErrorOps
    KEYQ_SIZE = 2
    Uninhibited = FALSE
    DestructiveBackspace = FALSE
    FieldMinusInChar = FALSE
INVARIANTS AssertionHolds
