SPECIFICATION EditingSpec
CONSTANTS
    Chords = {c, d}
    Doubtful = {2}
    MaxRevisions = 2
    MaxDraftEdits = 1
    MaxSessions = 2
    MaxSaves = 2
PROPERTIES
    DraftStays
\* The user may stop at any time.
CHECK_DEADLOCK FALSE
