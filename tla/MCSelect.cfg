SPECIFICATION FairSpec
CONSTANTS
    N = 15
    Builtin = {1}
    Kind <- MCKind
    Parent <- MCParent
    Refs <- MCRefs
    Number <- MCNumber
    RuleSets <- MCRuleSets
INVARIANTS
    TypeOK
    DecisionIsLastMatch
    ClosureIsLeast
    SelectionIsSound
    EveryKeepIsExplained
PROPERTIES
    Terminates
CHECK_DEADLOCK FALSE
