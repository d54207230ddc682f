SPECIFICATION MCSpec
CONSTANTS
    Home = home
    Targets = {t1, t2}
    NoTarget = notarget
    MaxCommits = 2
    MaxMoves = 3
    MaxTroubles = 3
    Packs = {m1, m2}
    NoPack = nopack
    MaxStoreFaults = 1
    MaxStoreCrashes = 1
    MaxOps = 3
    Gens = {g1}
    MaxHandles = 3
    MediaProjects = {p1, p2}
    MaxPlayback = 1
    MaxReads = 1
    MaxMediaTroubles = 1
    MaxExports = 2
    MaxExportFaults = 1
    MaxExportCrashes = 2
    MaxTouches = 2
    Archives = {a1, a2}
    Proven = {a1}
    NoBytes = nobytes
    MaxCopies = 1
    MaxImports = 4
    MaxCacheFaults = 1
    MaxCacheCrashes = 1
    Carriers = {p1}
    MaxTime = 2
    Notes = {n1}
    MaxCatalogOps = 4
    MaxCatalogFaults = 1
    MaxCatalogCrashes = 1
    MaxRots = 1
    MaxCleanups = 2
    MaxCleanFaults = 1
    MaxCleanCrashes = 1
    MaxChanges = 2
INVARIANTS
    MCTypeOK
    RelocationKeepsWord
    
    MediaKeepsWord
    
    
    CatalogKeepsWord
    
\* Every part stops at its bounds.
CHECK_DEADLOCK FALSE
