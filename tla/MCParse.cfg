SPECIFICATION Spec
CONSTANTS
    Lanes = 2
    Keywords <- MCKeywords
    Proto3 <- MCProto3
    Texts <- MCTexts
    Rows <- MCRows
    MaxNesting = 2
    MaxField = 5
    MaxI32 = 6
    MaxI64 = 8
    MaxU64 = 17
INVARIANTS
    LexIsExact
    ScansSeeEveryByte
    ParserIsExact
CHECK_DEADLOCK FALSE
