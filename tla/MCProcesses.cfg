SPECIFICATION MCSpec
CONSTANTS
    NoWork = nowork
    MaxWaitingWork = 1
    OtherWork = {other}
    Other = other
    Recipes = {k1}
    Callers = {c1}
    NoRecipe = norecipe
    CircuitLimit = 1
    MaxRuns = 2
    MaxEvents = 1
    MaxSessions = 2
    MaxBeats = 1
    MaxDeaths = 1
    Acquiring = acquiring
    MaxJobs = 2
    MaxHistory = 2
    MaxFaults = 2
    MaxCrashes = 1
    MaxRequests = 3
    MaxRedirects = 1
    MaxStreams = 2
    MaxMessages = 5
INVARIANTS
    MCTypeOK
    NothingBesideProcess
    AlignmentKeepsWord
    SidecarKeepsWord
    AcquisitionKeepsWord
    ExtractorKeepsWord
PROPERTIES
    
    RunsEnd
\* Every part stops at its bounds.
CHECK_DEADLOCK FALSE
