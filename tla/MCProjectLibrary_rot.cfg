SPECIFICATION Spec
CONSTANTS
    p1 = p1
    p2 = p2
    old = old
    new = new
    Projects = {p1}
    Payloads = {new}
    Older = {}
    Upgrade <- NoUpgrade
    MaxRevisions = 3
    MaxCrashes = 1
    MaxRot = 1
INVARIANTS
    IInv
PROPERTIES
    HeadMoves
