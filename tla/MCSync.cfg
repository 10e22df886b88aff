SPECIFICATION FairSpec
CONSTANTS
    r1 = r1
    r2 = r2
    a = a
    b = b
    bad = bad
    d = d
    n = n
    Top = Top
    Away = Away
    Runs = {r1, r2}
    Paths = {a, b, bad}
    ValidPaths = {a, b}
    Dirs = {Top, d}
    Names = {n}
    Deep = {n}
    EntryOf <- MCDistinct
    Absent = Absent
    Foreign = Foreign
    Link = Link
    NoRun = NoRun
    NoTemp = NoTemp
    ManifestTemp = ManifestTemp
INVARIANTS
    TypeOK
    MutualExclusion
    NoLostRecord
    
    SuccessIsRecorded
    TempsCleaned
PROPERTIES
    ScopedEffects
    ImplementsOwnedDir
    EveryCallReturns
