SPECIFICATION FairSpec
CONSTANTS
    Scripts <- TwoJobs
    Window = 2
INVARIANTS JobsInOrder OnlyOpenJobLoses
PROPERTIES KeepsUp
