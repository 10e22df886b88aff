SPECIFICATION EditSpec
CONSTANTS
    Texts <- MCUntidy
    MaxNesting = 5
INVARIANTS
    OnlyDeletedGoes
CHECK_DEADLOCK FALSE
