SPECIFICATION Spec
CONSTANTS
    j1 = j1
    j2 = j2
    Jobs = {j1}
    Faults = {"read", "ack", "stop"}
    MaxAttempts = 2
    MaxWaiting = 1
    MaxEdits = 1
    MaxFaults = 1
    MaxSleeps = 0
    MaxCrashes = 1
INVARIANTS
    TypeOK
    CommittedKept
    OneResultPerJob
    SuccessIsPublished
