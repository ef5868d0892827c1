SPECIFICATION FairSpec
CONSTANTS
    Keys <- QueueKeys
    HostOps <- QueueOps
    KEYQ_SIZE = 3
    Uninhibited = FALSE
    DestructiveBackspace = TRUE
    FieldMinusInChar = TRUE
PROPERTIES ErrorSendsNoFields HelpIsAutomatic QueueIsServed
