SPECIFICATION FormatSpec
CONSTANTS
    Texts <- MCTexts
    MaxNesting = 3
INVARIANTS
    Idempotent
    NothingIsLost
    StableWhereTidy
    CommentsKeepTheirPlace
CHECK_DEADLOCK FALSE
