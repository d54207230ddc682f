SPECIFICATION FairSpec
CONSTANTS
    j1 = j1
    j2 = j2
    Jobs = {j1}
    Faults = {"ack", "stop"}
    MaxAttempts = 2
    MaxWaiting = 1
    MaxEdits = 1
    MaxFaults = 1
    MaxSleeps = 1
    MaxCrashes = 0
INVARIANTS
    RunningHasAttempt
PROPERTIES
    NoLatePublication
    AttemptsEnd
