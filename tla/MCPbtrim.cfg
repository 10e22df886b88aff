SPECIFICATION Spec
CONSTANTS
    Runs = {r1, r2}
    a = a
    b = b
    rules = rules
    any = any
    Files = {a, b, any, rules}
    RulesFile = rules
    Sources = {a, b, any}
    Place <- MCPlace
    PathOf <- MCPathOf
    Provided = {any}
    Api <- MCApi
    Imports <- MCImports
    Keeps <- MCKeeps
    Root <- MCRoot
    Dirs <- MCDirs
    Real <- MCReal
    Absent = Absent
    Link = Link
    NoRun = NoRun
    Starts <- MCStarts
    FormsOf <- MCFormsOf
    MaxSaves = 1
SYMMETRY Alike
INVARIANTS
    ExitCodeTells
    SuccessMeansTidy
    TextsAreSaved
    OutputIsAnalyzed
    LastOneMirrors
    OutputIsCurrent
CHECK_DEADLOCK FALSE
