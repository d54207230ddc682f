SPECIFICATION Spec
CONSTANTS
    j1 = j1
    j2 = j2
    Jobs = {j1, j2}
    Faults = {"write"}
    MaxAttempts = 2
    MaxWaiting = 1
    MaxEdits = 0
    MaxFaults = 1
    MaxSleeps = 0
    MaxCrashes = 0
SYMMETRY Symmetry
INVARIANTS
    OneRunner
    OneJobInFlight
