SPECIFICATION FairSpec
CONSTANTS
    p1 = p1
    p2 = p2
    old = old
    new = new
    Projects = {p1}
    Payloads = {old, new}
    Older = {old}
    Upgrade <- UpgradeOld
    MaxRevisions = 2
    MaxCrashes = 0
    MaxRot = 1
PROPERTIES
    MutationsEnd
