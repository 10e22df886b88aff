SPECIFICATION Spec
CONSTANTS
    Names <- MCNames
    Sources <- MCSources
    Paths <- MCPaths
INVARIANTS
    ReadsWhatIsWritten
    GlobIsCovering
CHECK_DEADLOCK FALSE
