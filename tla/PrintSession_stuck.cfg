SPECIFICATION FairSpec
CONSTANTS
    Scripts <- OneJob
    Window = 1
PROPERTIES EveryRecordHandled
