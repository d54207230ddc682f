SPECIFICATION Spec
CONSTANTS
    p1 = p1
    p2 = p2
    old = old
    new = new
    Projects = {p1}
    Payloads = {old, new}
    Older = {old}
    Upgrade <- UpgradeOld
    MaxRevisions = 3
    MaxCrashes = 2
    MaxRot = 0
INVARIANTS
    TypeOK
    HeadIntact
    
    AckedSurvives
    

    
