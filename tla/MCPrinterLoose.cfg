SPECIFICATION FormatSpec
CONSTANTS
    Texts <- MCTexts
    MaxNesting = 3
INVARIANTS
    StableAttachment
CHECK_DEADLOCK FALSE
