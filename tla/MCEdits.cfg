SPECIFICATION EditSpec
CONSTANTS
    Texts <- MCTidy
    MaxNesting = 5
INVARIANTS
    OnlyDeletedGoes
    ReservedOnce
    OutputIsLegal
CHECK_DEADLOCK FALSE
