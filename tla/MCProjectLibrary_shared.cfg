SPECIFICATION Spec
CONSTANTS
    p1 = p1
    p2 = p2
    old = old
    new = new
    Projects = {p1, p2}
    Payloads = {new}
    Older = {}
    Upgrade <- NoUpgrade
    MaxRevisions = 2
    MaxCrashes = 1
    MaxRot = 0
SYMMETRY Symmetry
INVARIANTS
    HeadIntact
