SPECIFICATION MacroSpec
CONSTANTS
    Key = {"MEMO", "EXEC", "F1", "F10", "ENTER", "SYSREQ", "E", "[", "]", "wide"}
    KEYQ_SIZE = 3
    NoKey = NoKey
    FKeys <- TwoKeys
    MKey <- Names
    Wide = {"wide"}
    Typable = {"MEMO", "EXEC", "F1", "F10", "ENTER", "SYSREQ", "E"}
    Digits <- NumberDigits
    Files <- SomeFiles
    BUFSIZE = 3
    LINESZ = 5
    MAX_SPECKEY = 4
    MaxTyped = 6
INVARIANTS NoUnwrittenSlot RecordingIntact PlaysBack
PROPERTIES FifoQueue
