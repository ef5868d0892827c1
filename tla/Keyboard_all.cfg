SPECIFICATION Spec
CONSTANTS
    Keys <- AllKeys
    HostOps <- AllOps
    KEYQ_SIZE = 2
    Uninhibited = TRUE
    DestructiveBackspace = FALSE
    FieldMinusInChar = FALSE
INVARIANTS TypeOK ErrorStateInhibits LockedShowsXSystem HelpNamesTheError QueuedOnlyWhileLocked
PROPERTIES HeldWhileLocked HalfDuplex
