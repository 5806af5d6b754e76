SPECIFICATION Spec
CONSTANTS
    Kinds = {"NICKNAME", "WEEKLY_PLAN"}
    Values = {v1, v2}
    NoValue = NoValue
    MaxInFlight = 2
SYMMETRY ValueSymmetry
INVARIANTS
    TypeOK
    RereadsAreCurrent
PROPERTY
    NothingIsForgotten
