SPECIFICATION Spec
CONSTANTS
    Projects = {p1}
    NoProject = noproject
    MaxPending = 2
    MaxPerProject = 1
    MaxSequence = 5
    MaxRequests = 3
    MaxFaults = 1
    Chords = {c, d}
    Doubtful = {2}
    MaxRevisions = 4
    MaxDraftEdits = 2
    MaxSessions = 1
    MaxSaves = 1
    MaxPlayers = 2
    MaxNetPending = 2
    MaxSettings = 2
    MaxNetFaults = 1
    LyricsProjects = {p1, p2}
    Songs = {s1, s2}
    Hashed = {s1}
    MaxSearches = 2
    MaxLyricsEvents = 3
INVARIANTS
    TypeOK
    ShownCatchesUp
    
    NetworkKeepsWord
    LyricsKeepWord
\* Every part stops at its bounds.
CHECK_DEADLOCK FALSE
