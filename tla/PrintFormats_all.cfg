SPECIFICATION ConverterSpec
CONSTANTS
    BUFLEN = 3
    Size <- Lengths
    Streams <- SomeStreams
CHECK_DEADLOCK FALSE
INVARIANTS TextInPlace XrefRight
