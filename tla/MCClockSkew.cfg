SPECIFICATION Spec
CONSTANTS
    CLOCK_SKEW_THRESHOLD = 86400
    Day = 86400
    Offset = 25200
    Skews <- MCSkews
    Leads <- MCLeads
    MaxReplies = 2
    Drifting = TRUE
    NoTime = NoTime
INVARIANTS
    TypeOK
    CorrectionTracks
PROPERTIES
    SchedulesAreAimed
    SchedulesReadBack
