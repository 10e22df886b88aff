SPECIFICATION FairSpec
CONSTANTS
    a = a
    b = b
    c = c
    d = d
    e = e
    v = v
    w = w
    Files = {a, b, c, d, e}
    Wkts = {v, w}
    Graphs <- MCGraphs
    RefSets <- MCRefSets
INVARIANTS
    TypeOK
    RefsStayVisible
    RequiredIsLeast
    PruningIsStable
PROPERTIES
    Terminates
CHECK_DEADLOCK FALSE
